---- MODULE Spec2Model ----
(***************************************************************************)
(* Routing core of the space-aware qBittorrent dispatcher:                 *)
(*   app/dispatcher.py       Dispatcher (evaluate, score, submit, history) *)
(*   app/request_tracker.py  RequestTracker (duplicate suppression)        *)
(*                                                                         *)
(* Conventions.                                                            *)
(*   Optional[T] is a sequence: None is <<>>, a present value v is <<v>>.  *)
(*   Floats are modelled by integers (gibibytes, Mbit/s, weights, scores). *)
(*   Strings that the code takes apart (magnets) are sequences of tokens.  *)
(*   Wall-clock time (datetime.now) is the variable now, in hours.         *)
(***************************************************************************)
EXTENDS Integers, Sequences, FiniteSets, TLC

None == <<>>
Some(v) == <<v>>

Max(a, b) == IF a >= b THEN a ELSE b
Min(a, b) == IF a <= b THEN a ELSE b

(***************************************************************************)
(* Bounds of the model.                                                    *)
(***************************************************************************)
\* number of calls of Dispatcher.submit in one behaviour
MaxCalls == 2
\* number of clock advances in one behaviour
MaxTicks == 1

(***************************************************************************)
(* Program constants.                                                      *)
(***************************************************************************)
\* deque(maxlen=200)
HistoryMaxLen == 200
\* timedelta(hours=24) in is_duplicate
DuplicateWindowHours == 24
\* infohash[:40]
InfohashLen == 40
\* hours in a day (timedelta(days=days) in cleanup_old_requests)
HoursPerDay == 24

\* one clock advance while the dispatcher runs: the duplicate window, so that
\* an entry is first seen at age 0 and next at age 24 h exactly
TickHours == DuplicateWindowHours

(***************************************************************************)
(* Magnets.  A magnet is a sequence of tokens; "btih:" and "&" are the     *)
(* separators the code splits on, every other token is one character (or   *)
(* an opaque run of characters containing neither separator).              *)
(***************************************************************************)
RECURSIVE Rep(_, _)
Rep(c, n) == IF n = 0 THEN <<>> ELSE <<c>> \o Rep(c, n - 1)

\* first index of token t in s at or after i, 0 if absent
RECURSIVE IndexFrom(_, _, _)
IndexFrom(s, t, i) ==
    IF i > Len(s) THEN 0
    ELSE IF s[i] = t THEN i
    ELSE IndexFrom(s, t, i + 1)

IndexOf(s, t) == IndexFrom(s, t, 1)

\* s.split(t)[0]
SplitHead(s, t) ==
    IF IndexOf(s, t) = 0 THEN s ELSE SubSeq(s, 1, IndexOf(s, t) - 1)

\* s.split(t)[1], for s containing t
SplitSecond(s, t) ==
    SplitHead(SubSeq(s, IndexOf(s, t) + 1, Len(s)), t)

\* s[:n] (a negative n counts from the end)
Prefix(s, n) ==
    IF n >= 0 THEN SubSeq(s, 1, Min(n, Len(s)))
    ELSE SubSeq(s, 1, Max(0, Len(s) + n))

MagnetHead == "magnet:?xt=urn:"
\* 40 hex characters, "&dn=x" appended
MagnetA == <<MagnetHead, "btih:">> \o Rep("a", InfohashLen) \o <<"&", "dn=x">>
\* a 41-character infohash: another infohash, the same first 40 characters
MagnetA41 == <<MagnetHead, "btih:">> \o Rep("a", InfohashLen) \o <<"b">>
\* a different infohash
MagnetB == <<MagnetHead, "btih:">> \o Rep("b", InfohashLen)
\* no btih segment: keyed by the SHA-1 of the whole magnet
MagnetNoHash == <<MagnetHead, "dn=x">>

\* hashlib.sha1(magnet.encode()).hexdigest(): a digest identifies its input
sha1(magnet) == [kind |-> "sha1", val |-> magnet]

_generate_request_id(magnet) ==
    IF IndexOf(magnet, "btih:") # 0
    THEN [kind |-> "btih",
          val  |-> Prefix(SplitHead(SplitSecond(magnet, "btih:"), "&"), InfohashLen)]
    ELSE sha1(magnet)


(***************************************************************************)
(* Configuration (app/config.py).  An AppConfig is a record; the fields    *)
(* of DispatcherSettings, SubmissionSettings and RequestTrackingConfig     *)
(* that the routing core reads are kept under their own names.             *)
(***************************************************************************)
NodeConfig(name, min_free_gb, weight) ==
    [name |-> name, min_free_gb |-> min_free_gb, weight |-> weight]

NodeA == NodeConfig("node-a", 10, 1)
NodeB == NodeConfig("node-b", 0, 2)
\* a second entry under the name of NodeA (parse_config does not reject it);
\* weight 0, which the scorer reads as 1 (node.weight or 1.0)
NodeA2 == NodeConfig("node-a", 0, 0)

AppConfig(nodes, max_retries, enabled, check_duplicates, check_quality) ==
    [nodes |-> nodes,
     dispatcher |->
        [disk_weight |-> 1, download_weight |-> 2, bandwidth_weight |-> 1,
         max_downloads |-> 2, min_score |-> -1,
         admin_api_key |-> None,
         submission |-> [max_retries |-> max_retries]],
     integrations |->
        [n8n |-> [enabled |-> FALSE], overseerr |-> [enabled |-> FALSE]],
     request_tracking |->
        [enabled |-> enabled, check_duplicates |-> check_duplicates,
         check_quality_profiles |-> check_quality,
         send_suggestions |-> check_quality]]

CfgTwo      == AppConfig(<<NodeA, NodeB>>, 3, TRUE, TRUE, FALSE)
CfgNoRetry  == AppConfig(<<NodeA, NodeB>>, 0, FALSE, TRUE, FALSE)
CfgSameName == AppConfig(<<NodeA, NodeA2>>, 2, TRUE, TRUE, FALSE)
CfgOne      == AppConfig(<<NodeB>>, -1, TRUE, FALSE, TRUE)

Configs == {CfgTwo, CfgNoRetry, CfgSameName, CfgOne}

NodeNames == {"node-a", "node-b"}

(***************************************************************************)
(* Requests (models.SubmitRequest).                                        *)
(***************************************************************************)
SubmitRequest(name, category, size_estimate_gb, magnet) ==
    [name |-> name, category |-> category,
     size_estimate_gb |-> size_estimate_gb, magnet |-> magnet]

ReqA   == SubmitRequest("Movie.1080p", "movies", 0, MagnetA)
ReqA41 == SubmitRequest("Movie.720p", "tv", 10, MagnetA41)
ReqB   == SubmitRequest("Show.S01", "tv", 0, MagnetB)
ReqN   == SubmitRequest("NoHash", "movies", 10, MagnetNoHash)

\* the requests submitted through the dispatcher
Requests == {ReqA, ReqA41}
\* the requests handed to the tracker directly
TrackerRequests == {ReqA, ReqA41, ReqB}

(***************************************************************************)
(* Node telemetry (qb_client.NodeState) and the outcome of one probe:      *)
(* None when fetch_state raises, the NodeState otherwise.                  *)
(***************************************************************************)
NodeState(free, active, paused, rate) ==
    [free_disk_gb |-> free, active_downloads |-> active,
     paused_downloads |-> paused, global_download_rate_mbps |-> rate]

NodeStates ==
    { NodeState(None, 0, 0, 0),        \* free disk unknown
      NodeState(Some(30), 0, 1, 0),    \* plenty of room
      NodeState(Some(30), 3, 0, 0),    \* more downloads than max_downloads
      NodeState(Some(5), 2, 0, 2) }    \* busy: base score -1

ProbeOutcomes == {None} \cup {Some(s) : s \in NodeStates}

(***************************************************************************)
(* Dispatcher._gather_node_state: the probe of one node.                   *)
(***************************************************************************)
\* a failed probe reported with zero free disk instead of none
_gather_node_state_zero_free(node, outcome) ==
    IF outcome = None
    THEN [state |-> None,
          metrics |->
            [name |-> node.name, free_disk_gb |-> Some(0),
             active_downloads |-> 0, paused_downloads |-> 0,
             global_download_rate_mbps |-> 0, reachable |-> FALSE,
             excluded_reason |-> Some("api_unreachable"), score |-> None]]
    ELSE [state |-> outcome,
          metrics |->
            [name |-> node.name, free_disk_gb |-> outcome[1].free_disk_gb,
             active_downloads |-> outcome[1].active_downloads,
             paused_downloads |-> outcome[1].paused_downloads,
             global_download_rate_mbps |-> outcome[1].global_download_rate_mbps,
             reachable |-> TRUE, excluded_reason |-> None, score |-> None]]

_gather_node_state(node, outcome) ==
    IF outcome = None
    THEN [state |-> None,
          metrics |->
            [name |-> node.name, free_disk_gb |-> None,
             active_downloads |-> 0, paused_downloads |-> 0,
             global_download_rate_mbps |-> 0, reachable |-> FALSE,
             excluded_reason |-> Some("api_unreachable"), score |-> None]]
    ELSE [state |-> outcome,
          metrics |->
            [name |-> node.name, free_disk_gb |-> outcome[1].free_disk_gb,
             active_downloads |-> outcome[1].active_downloads,
             paused_downloads |-> outcome[1].paused_downloads,
             global_download_rate_mbps |-> outcome[1].global_download_rate_mbps,
             reachable |-> TRUE, excluded_reason |-> None, score |-> None]]

(***************************************************************************)
(* Dispatcher._score_node.                                                 *)
(***************************************************************************)
\* the size estimate subtracted without the floor at zero
EffectiveFree_unclamped(state, size_estimate_gb) ==
    IF size_estimate_gb # 0 /\ state.free_disk_gb # None
    THEN Some(state.free_disk_gb[1] - size_estimate_gb)
    ELSE state.free_disk_gb

\* free_disk_gb after "if size_estimate_gb and free_disk_gb is not None"
EffectiveFree(state, size_estimate_gb) ==
    IF size_estimate_gb # 0 /\ state.free_disk_gb # None
    THEN Some(Max(0, state.free_disk_gb[1] - size_estimate_gb))
    ELSE state.free_disk_gb

\* reason after the free-space checks
DiskReason(node, free) ==
    IF free = None THEN Some("missing_free_space")
    ELSE IF free[1] < node.min_free_gb THEN Some("below_min_free_space")
    ELSE None

\* the reason of the last test that applies
OrReason_last(reason, x) == Some(x)

\* reason or "x"
OrReason(reason, x) == IF reason # None THEN reason ELSE Some(x)

\* x or 1.0
OrOne(x) == IF x = 0 THEN 1 ELSE x

BaseScore(settings, free, state) ==
    (IF free = None THEN 0 ELSE free[1]) * settings.disk_weight
    - state.active_downloads * settings.download_weight
    - state.global_download_rate_mbps * settings.bandwidth_weight

\* a minimum score that lets a score one below it through
BelowMinimum_lenient(settings, score) ==
    score # None /\ score[1] < settings.min_score - 1

\* score is not None and score < settings.min_score
BelowMinimum(settings, score) ==
    score # None /\ score[1] < settings.min_score

_score_node(cfg, node, state, metrics, size_estimate_gb) ==
    LET settings == cfg.dispatcher
        free     == EffectiveFree(state, size_estimate_gb)
        reason1  == DiskReason(node, free)
        tooMany  == state.active_downloads > settings.max_downloads
        excl2    == reason1 # None \/ tooMany
        reason2  == IF tooMany THEN OrReason(reason1, "too_many_downloads")
                    ELSE reason1
        score    == IF excl2 THEN None
                    ELSE Some(BaseScore(settings, free, state) * OrOne(node.weight))
        below    == BelowMinimum(settings, score)
        excluded == excl2 \/ below
        reason   == IF below THEN OrReason(reason2, "score_below_minimum")
                    ELSE reason2
    IN  [config |-> node, state |-> Some(state),
         metrics |-> [metrics EXCEPT !.score = score, !.excluded_reason = reason],
         score |-> score, excluded |-> excluded]

(***************************************************************************)
(* Dispatcher.evaluate_nodes: one snapshot per configured node, in         *)
(* configuration order.  outcomes[i] is the outcome of the probe issued    *)
(* for entry i (through the client registered under that entry's name).    *)
(***************************************************************************)
\* a round that leaves out the snapshot of a node whose probe failed
evaluate_nodes_skip_failed(cfg, outcomes, size_estimate_gb) ==
    LET Answered(n) == n.metrics.reachable
    IN  SelectSeq(
            [i \in 1..Len(cfg.nodes) |->
                LET node == cfg.nodes[i]
                    g    == _gather_node_state(node, outcomes[i])
                IN  IF ~g.metrics.reachable
                    THEN [config |-> node, state |-> None, metrics |-> g.metrics,
                          score |-> None, excluded |-> TRUE]
                    ELSE _score_node(cfg, node, g.state[1], g.metrics,
                                     size_estimate_gb)],
            Answered)

evaluate_nodes(cfg, outcomes, size_estimate_gb) ==
    [i \in 1..Len(cfg.nodes) |->
        LET node == cfg.nodes[i]
            g    == _gather_node_state(node, outcomes[i])
        IN  IF ~g.metrics.reachable
            THEN [config |-> node, state |-> None, metrics |-> g.metrics,
                  score |-> None, excluded |-> TRUE]
            ELSE _score_node(cfg, node, g.state[1], g.metrics, size_estimate_gb)]


(***************************************************************************)
(* Logging.  Logger.makeRecord raises KeyError("Attempt to overwrite       *)
(* 'name' in LogRecord") when a call that is enabled for its level passes  *)
(* extra={"name": ...}; a call below the logger's level builds no record   *)
(* and returns.  main.configure_logging sets the root level to INFO, a     *)
(* Dispatcher or RequestTracker built without it (the unit tests) runs at  *)
(* the default level WARNING.  info is "logger.isEnabledFor(INFO)".        *)
(***************************************************************************)
LogRecordError == "Attempt to overwrite 'name' in LogRecord"

\* logger.info(..., extra={"name": ...}) raises
InfoWithNameRaises(info) == info

(***************************************************************************)
(* RequestTracker (app/request_tracker.py).  A tracker is the record of    *)
(* its two dicts; a dict is a function on the set of its keys.             *)
(***************************************************************************)
NewTracker == [_requests |-> <<>>, _by_category |-> <<>>]

DictGet(d, k, default) == IF k \in DOMAIN d THEN d[k] ELSE default

DictSet(d, k, v) == [x \in (DOMAIN d) \cup {k} |-> IF x = k THEN v ELSE d[x]]

DictDel(d, ks) == [x \in (DOMAIN d) \ ks |-> d[x]]

\* list.remove(x): drops the first occurrence
RECURSIVE RemoveFirst(_, _)
RemoveFirst(s, x) ==
    IF s = <<>> THEN <<>>
    ELSE IF Head(s) = x THEN Tail(s)
    ELSE <<Head(s)>> \o RemoveFirst(Tail(s), x)

\* RequestTracker.add_request: the tracker after the call (the entry is
\* stored before logger.info runs) and whether the call raised
add_request(t, req, source, selected_node, clock, info) ==
    LET request_id == _generate_request_id(req.magnet)
        tracked ==
            [name |-> req.name, category |-> req.category,
             size_estimate_gb |-> req.size_estimate_gb, magnet |-> req.magnet,
             timestamp |-> clock, source |-> source, quality_profile |-> None,
             selected_node |-> selected_node, status |-> "pending"]
    IN  [tracker |->
            [_requests |-> DictSet(t._requests, request_id, tracked),
             _by_category |->
                DictSet(t._by_category, req.category,
                        Append(DictGet(t._by_category, req.category, <<>>),
                               request_id))],
         raised |-> InfoWithNameRaises(info),
         value |-> request_id]

\* the age test of is_duplicate: datetime.now() - existing.timestamp < 24 h
IsRecent(existing, clock) == clock - existing.timestamp < DuplicateWindowHours

\* RequestTracker.is_duplicate: (is_duplicate, existing), or KeyError from
\* the logger.info call on the duplicate branch
is_duplicate(t, req, clock, info) ==
    LET request_id == _generate_request_id(req.magnet)
    IN  IF request_id \in DOMAIN t._requests
           /\ IsRecent(t._requests[request_id], clock)
        THEN IF InfoWithNameRaises(info)
             THEN [raised |-> TRUE, dup |-> FALSE, existing |-> None]
             ELSE [raised |-> FALSE, dup |-> TRUE,
                   existing |-> Some(t._requests[request_id])]
        ELSE [raised |-> FALSE, dup |-> FALSE, existing |-> None]

\* RequestTracker.update_status ("if selected_node:" holds for a present name)
update_status(t, request_id, status, selected_node) ==
    IF request_id \in DOMAIN t._requests
    THEN [t EXCEPT !._requests[request_id] =
            [@ EXCEPT !.status = status,
                      !.selected_node =
                          IF selected_node # None THEN selected_node ELSE @]]
    ELSE t

\* a test that also takes an entry stamped at the cutoff for old
OlderThan_inclusive(timestamp, cutoff) == timestamp <= cutoff

\* req.timestamp < cutoff
OlderThan(timestamp, cutoff) == timestamp < cutoff

\* RequestTracker.cleanup_old_requests: the tracker after the call and the
\* number of entries removed
cleanup_old_requests(t, days, clock) ==
    LET cutoff    == clock - days * HoursPerDay
        to_remove == {k \in DOMAIN t._requests :
                         OlderThan(t._requests[k].timestamp, cutoff)}
        \* each removed key is dropped once from its entry's category list
        RECURSIVE Strip(_, _)
        Strip(byc, ks) ==
            IF ks = {} THEN byc
            ELSE LET k   == CHOOSE x \in ks : TRUE
                     cat == t._requests[k].category
                 IN  Strip(IF cat \in DOMAIN byc
                           THEN [byc EXCEPT ![cat] = RemoveFirst(@, k)]
                           ELSE byc,
                           ks \ {k})
    IN  [tracker |-> [_requests |-> DictDel(t._requests, to_remove),
                      _by_category |-> Strip(t._by_category, to_remove)],
         value |-> Cardinality(to_remove)]

\* RequestTracker.get_requests_by_category
get_requests_by_category(t, category) ==
    LET ids == DictGet(t._by_category, category, <<>>)
        RECURSIVE Collect(_)
        Collect(s) ==
            IF s = <<>> THEN <<>>
            ELSE (IF Head(s) \in DOMAIN t._requests
                  THEN <<t._requests[Head(s)]>> ELSE <<>>) \o Collect(Tail(s))
    IN  Collect(ids)


(***************************************************************************)
(* Decision history (Dispatcher._history, deque(maxlen=200)).              *)
(***************************************************************************)
\* a deque without maxlen
DequeAppend_unbounded(items, x) == Append(items, x)

\* deque.append on a deque with maxlen: a full deque drops its oldest item
DequeAppend(items, x) ==
    IF Len(items) >= HistoryMaxLen
    THEN Append(SubSeq(items, Len(items) - HistoryMaxLen + 2, Len(items)), x)
    ELSE Append(items, x)

SubmitDecision(selected_node, reason, status, attempted_nodes) ==
    [selected_node |-> selected_node, reason |-> reason, status |-> status,
     attempted_nodes |-> attempted_nodes]

\* Dispatcher._record_decision: the history after the call.  timestamp is
\* time.time(); serial numbers the records in the order they were appended
\* (it is not a field of the code's DecisionRecord).
_record_decision(hist, clock, serial, req, decision) ==
    DequeAppend(hist,
        [timestamp |-> clock,
         serial |-> serial,
         request_name |-> req.name,
         request_category |-> req.category,
         size_estimate_gb |-> req.size_estimate_gb,
         selected_node |-> decision.selected_node,
         reason |-> decision.reason,
         status |-> decision.status,
         attempted_nodes |-> decision.attempted_nodes])

\* items[:limit], the oldest records
LastItems_oldest(items, limit) == SubSeq(items, 1, limit)

\* items[-limit:] for 0 < limit < len(items)
LastItems(items, limit) == SubSeq(items, Len(items) - limit + 1, Len(items))

\* Dispatcher.get_decisions
get_decisions(hist, limit) ==
    IF limit <= 0 THEN <<>>
    ELSE IF Len(hist) <= limit THEN hist
    ELSE LastItems(hist, limit)

(***************************************************************************)
(* Candidate selection in Dispatcher.submit.  Snapshots are referred to by *)
(* their position in the round (the ScoredNode objects of the code).       *)
(***************************************************************************)
\* [n for n in scored_nodes if not n.excluded and n.score is not None]
RECURSIVE EligibleFrom(_, _)
EligibleFrom(scored, i) ==
    IF i > Len(scored) THEN <<>>
    ELSE (IF ~scored[i].excluded /\ scored[i].score # None THEN <<i>> ELSE <<>>)
         \o EligibleFrom(scored, i + 1)

Eligible(scored) == EligibleFrom(scored, 1)

\* key=lambda n: n.score or 0.0
SortKey(n) == IF n.score = None THEN 0 ELSE n.score[1]

\* x placed behind every item whose key is at least x's key
RECURSIVE InsertDesc(_, _, _)
InsertDesc(scored, sorted, x) ==
    IF sorted = <<>> THEN <<x>>
    ELSE IF SortKey(scored[Head(sorted)]) >= SortKey(scored[x])
    THEN <<Head(sorted)>> \o InsertDesc(scored, Tail(sorted), x)
    ELSE <<x>> \o sorted

RECURSIVE SortFrom(_, _, _)
SortFrom(scored, items, sorted) ==
    IF items = <<>> THEN sorted
    ELSE SortFrom(scored, Tail(items), InsertDesc(scored, sorted, Head(items)))

\* the eligible list left in configuration order
SortByScore_unsorted(scored, items) == items

\* list.sort(key=..., reverse=True): stable, descending
SortByScore(scored, items) == SortFrom(scored, items, <<>>)

\* max_retries taken as configured
RetryBudget_unclamped(cfg) == cfg.dispatcher.submission.max_retries

\* max(1, max_retries)
RetryBudget(cfg) == Max(1, cfg.dispatcher.submission.max_retries)

\* eligible[:max_retries]
Candidates(cfg, scored) ==
    Prefix(SortByScore(scored, Eligible(scored)), RetryBudget(cfg))

\* attempted_metrics = [n.metrics for n in scored_nodes], kept as the node
\* names of the round in order
AttemptedMetrics(scored) == [i \in 1..Len(scored) |-> scored[i].metrics.name]

\* --- the read-only views of a round -------------------------------------------
\* evaluate_nodes(self, size_estimate_gb: float = 0.0)
DefaultSizeEstimate == 0

\* NodeStatus(metrics=s.metrics, excluded=s.excluded)
NodeStatus(s) == [metrics |-> s.metrics, excluded |-> s.excluded]

\* Dispatcher.get_node_statuses: evaluate_nodes() with no argument
get_node_statuses(cfg, outcomes) ==
    LET scored == evaluate_nodes(cfg, outcomes, DefaultSizeEstimate)
    IN  [i \in 1..Len(scored) |-> NodeStatus(scored[i])]

\* Dispatcher.debug_decision: evaluate_nodes() with no argument, whatever
\* req.size_estimate_gb is
debug_decision(cfg, req, outcomes) ==
    LET scored_nodes == evaluate_nodes(cfg, outcomes, DefaultSizeEstimate)
        eligible     == SortByScore(scored_nodes, Eligible(scored_nodes))
    IN  [selected_node |-> IF eligible # <<>>
                           THEN Some(scored_nodes[eligible[1]].config.name)
                           ELSE None,
         reason |-> IF eligible = <<>> THEN "no_eligible_nodes"
                    ELSE "highest_score",
         nodes |-> [i \in 1..Len(scored_nodes) |-> NodeStatus(scored_nodes[i])]]

\* a dry run that appends its decision to the history
DryRunHistory_recorded(hist, clock, n, req, d) ==
    _record_decision(hist, clock, n, req,
                     SubmitDecision(d.selected_node, <<d.reason>>,
                                    IF d.selected_node = None THEN "rejected"
                                    ELSE "accepted", <<>>))

\* debug_decision builds a DecisionDebug and returns it: _record_decision is
\* not called
DryRunHistory(hist, clock, n, req, d) == hist


(***************************************************************************)
(* State.                                                                  *)
(***************************************************************************)
VARIABLES
    config,           \* Dispatcher.config
    info,             \* logger.isEnabledFor(logging.INFO)
    now,              \* wall clock, hours
    ticks,            \* clock advances so far
    request_tracker,  \* Dispatcher.request_tracker: None or Some(tracker)
    _history,         \* Dispatcher._history
    serial,           \* records appended so far
    backend,          \* client name -> magnets its backend has accepted
    calls,            \* calls of Dispatcher.submit so far
    adm,              \* the call of Dispatcher.submit in progress
    last_call,        \* the call of get_decisions or of a tracker method made
                      \* by the last step, with what it returned, or the HTTP
                      \* response the last step sent; else None
    app               \* the closure of main.create_app around the dispatcher

vars == <<config, info, now, ticks, request_tracker, _history, serial,
          backend, calls, adm, last_call, app>>

\* no call of submit in progress
IdleAdmission ==
    [pc |-> "idle", req |-> None, scored |-> <<>>, candidates |-> <<>>,
     attempt |-> 0, last_error |-> None, decision |-> None,
     \* what the call has done so far
     dup_seen |-> FALSE,     \* it began with a recent entry under its key
     probes |-> 0,           \* probes issued
     outcomes |-> <<>>,      \* what each probe of the round did
     attempts |-> <<>>,      \* snapshots whose client got submit_magnet, in order
     succeeded |-> <<>>,     \* those whose submit_magnet returned
     records |-> <<>>,       \* serials of the records it appended
     cancelled |-> FALSE,    \* its caller has cancelled it
     other |-> None]         \* the frame of a second call of submit that is
                             \* suspended at an await while this one runs

\* create_app: config_obj = config, dispatcher = Dispatcher(config_obj).
\* file is the text at DEFAULT_CONFIG_PATH, None when there is no file.
\* The dispatchers built by create_app and by the reloads are numbered:
\* generation is the number of the one the closure holds, self_generation
\* that of the one whose fields are the variables config, request_tracker
\* and _history.
NewApp(cfg, file) ==
    [config_obj |-> cfg,
     generation |-> 0,
     self_generation |-> 0,
     file |-> file,
     reloads |-> 0,       \* reloads installed so far
     call |-> None,       \* the submission handler awaiting dispatcher.submit
     status |-> None,     \* the frame of integrations_status at its await
     accepted |-> {}]     \* magnets of the decisions answered as accepted

\* Dispatcher.__init__
NewDispatcherTracker(cfg) ==
    IF cfg.request_tracking.enabled THEN Some(NewTracker) ELSE None

InitWith(cfgs, hist) ==
    /\ config \in cfgs
    /\ info \in BOOLEAN
    /\ now = 0
    /\ ticks = 0
    /\ request_tracker = NewDispatcherTracker(config)
    /\ _history = hist
    /\ serial = Len(hist)
    /\ backend = [n \in NodeNames |-> {}]
    /\ calls = 0
    /\ adm = IdleAdmission
    /\ last_call = None
    /\ app = NewApp(config, None)

Init == InitWith(Configs, <<>>)

(***************************************************************************)
(* Dispatcher.submit, one action per stretch of code between two awaits.   *)
(* Calls are taken one at a time.                                          *)
(***************************************************************************)
\* a recent entry is tracked under the key of req and the check is on
DuplicateTracked(req) ==
    /\ request_tracker # None
    /\ config.request_tracking.check_duplicates
    /\ _generate_request_id(req.magnet) \in DOMAIN request_tracker[1]._requests
    /\ IsRecent(request_tracker[1]._requests[_generate_request_id(req.magnet)], now)

\* entry of submit up to the first await: the duplicate check
SubmitStart(req) ==
    /\ adm.pc = "idle"
    /\ calls < MaxCalls
    /\ calls' = calls + 1
    /\ LET checks == request_tracker # None
                     /\ config.request_tracking.check_duplicates
           d == IF checks THEN is_duplicate(request_tracker[1], req, now, info)
                ELSE [raised |-> FALSE, dup |-> FALSE, existing |-> None]
           started == [adm EXCEPT !.req = Some(req),
                                  !.dup_seen = DuplicateTracked(req)]
       IN  adm' =
                IF d.raised
                THEN [started EXCEPT !.pc = "raised",
                                     !.last_error = Some(LogRecordError)]
                ELSE IF d.dup /\ d.existing # None
                THEN IF InfoWithNameRaises(info)
                     THEN [started EXCEPT !.pc = "raised",
                                          !.last_error = Some(LogRecordError)]
                     ELSE [started EXCEPT
                             !.pc = "notify_duplicate",
                             !.decision = Some(SubmitDecision(
                                 d.existing[1].selected_node,
                                 <<"duplicate_of_existing_request",
                                   d.existing[1].name>>,
                                 "rejected", <<>>))]
                ELSE IF config.request_tracking.check_quality_profiles
                THEN [started EXCEPT !.pc = "quality"]
                ELSE [started EXCEPT !.pc = "evaluate"]
    /\ UNCHANGED <<config, info, now, ticks, request_tracker, _history, serial,
                   backend>>
    /\ last_call' = None

\* quality_checker.check_quality_match returned (suggestion: whether it
\* returned a QualitySuggestion) up to the await of evaluate_nodes
QualityCheck(suggestion) ==
    /\ adm.pc = "quality"
    /\ adm' =
            IF suggestion /\ config.request_tracking.send_suggestions
               /\ InfoWithNameRaises(info)
            THEN [adm EXCEPT !.pc = "raised", !.last_error = Some(LogRecordError)]
            ELSE [adm EXCEPT !.pc = "evaluate"]
    /\ UNCHANGED <<app, config, info, now, ticks, request_tracker, _history, serial,
                   backend, calls>>
    /\ last_call' = None

\* evaluate_nodes returned (outcomes: what each probe did) up to the next
\* await: the rejection for want of eligible nodes, or the first attempt
Evaluate(outcomes) ==
    /\ adm.pc = "evaluate"
    /\ LET req      == adm.req[1]
           scored   == evaluate_nodes(config, outcomes, req.size_estimate_gb)
           eligible == SortByScore(scored, Eligible(scored))
           decision == SubmitDecision(None, <<"no_eligible_nodes">>, "rejected",
                                      AttemptedMetrics(scored))
           \* the loop over an empty slice falls through to line 381
           failed   == SubmitDecision(None,
                                      <<"submission_failed_all_nodes", "None">>,
                                      "failed", AttemptedMetrics(scored))
           probed   == [adm EXCEPT !.scored = scored,
                                   !.probes = @ + Len(config.nodes),
                                   !.outcomes = outcomes]
       IN  IF eligible = <<>>
           THEN /\ _history' = _record_decision(_history, now, serial + 1, req,
                                                decision)
                /\ serial' = serial + 1
                /\ adm' = [probed EXCEPT !.pc = "notify_rejected",
                                         !.decision = Some(decision),
                                         !.records = Append(@, serial + 1)]
           ELSE IF Candidates(config, scored) = <<>>
           THEN /\ _history' = _record_decision(_history, now, serial + 1, req,
                                                failed)
                /\ serial' = serial + 1
                /\ adm' = [probed EXCEPT !.pc = "done",
                                         !.decision = Some(failed),
                                         !.records = Append(@, serial + 1)]
           ELSE /\ adm' = [probed EXCEPT !.pc = "attempt",
                                         !.candidates = Candidates(config, scored),
                                         !.attempt = 1]
                /\ UNCHANGED <<_history, serial>>
    /\ UNCHANGED <<app, config, info, now, ticks, request_tracker, backend, calls>>
    /\ last_call' = None

\* a success path that adds the entry and leaves it as add_request made it
TrackAccepted_pending(t, req, node_name) ==
    LET added == add_request(t, req, Some(req.category), None, now, info)
    IN  [tracker |-> added.tracker, raised |-> added.raised]

\* the tracker after lines 343-353, and whether add_request raised
TrackAccepted(t, req, node_name) ==
    LET added == add_request(t, req, Some(req.category), Some(node_name), now, info)
    IN  IF added.raised
        THEN [tracker |-> added.tracker, raised |-> TRUE]
        ELSE [tracker |-> update_status(added.tracker,
                                        _generate_request_id(req.magnet),
                                        "downloading", Some(node_name)),
              raised |-> FALSE]

\* submit_magnet of the current candidate returned (ok) or raised, up to the
\* next await or the return
Attempt(ok) ==
    /\ adm.pc = "attempt"
    /\ LET req      == adm.req[1]
           idx      == adm.candidates[adm.attempt]
           node     == adm.scored[idx].config
           metrics  == AttemptedMetrics(adm.scored)
           accepted == SubmitDecision(Some(node.name), <<"highest_score">>,
                                      "accepted", metrics)
           tracked  == IF ok /\ request_tracker # None
                       THEN TrackAccepted(request_tracker[1], req, node.name)
                       ELSE [tracker |-> None, raised |-> FALSE]
           \* the except branch is taken
           caught   == ~ok \/ tracked.raised
           error    == IF ok THEN LogRecordError ELSE "submit_failed"
           last     == adm.attempt >= Len(adm.candidates)
           failed   == SubmitDecision(None,
                                      <<"submission_failed_all_nodes", error>>,
                                      "failed", metrics)
           hist1    == IF ok
                       THEN _record_decision(_history, now, serial + 1, req, accepted)
                       ELSE _history
           serial1  == IF ok THEN serial + 1 ELSE serial
           recs1    == IF ok THEN Append(adm.records, serial + 1) ELSE adm.records
           tried    == [adm EXCEPT !.attempts = Append(@, idx),
                                   !.succeeded = IF ok THEN Append(@, idx) ELSE @]
       IN  /\ backend' = IF ok
                         THEN [backend EXCEPT ![node.name] = @ \cup {req.magnet}]
                         ELSE backend
           /\ request_tracker' = IF ok /\ request_tracker # None
                                 THEN Some(tracked.tracker)
                                 ELSE request_tracker
           /\ IF ~caught
              THEN /\ _history' = hist1
                   /\ serial' = serial1
                   /\ adm' = [tried EXCEPT !.pc = "notify_started",
                                           !.decision = Some(accepted),
                                           !.records = recs1]
              ELSE IF ~last
              THEN /\ _history' = hist1
                   /\ serial' = serial1
                   /\ adm' = [tried EXCEPT !.attempt = @ + 1,
                                           !.last_error = Some(error),
                                           !.records = recs1]
              ELSE /\ _history' = _record_decision(hist1, now, serial1 + 1, req,
                                                   failed)
                   /\ serial' = serial1 + 1
                   /\ adm' = [tried EXCEPT !.pc = "done",
                                           !.last_error = Some(error),
                                           !.decision = Some(failed),
                                           !.records = Append(recs1, serial1 + 1)]
    /\ UNCHANGED <<app, config, info, now, ticks, calls>>
    /\ last_call' = None

\* a sender that lets the failure of a port through to submit
PortError_propagated(port_ok) ==
    IF port_ok THEN None ELSE Some("port_failed")

\* what send_notification and trigger_webhook raise when a port fails
\* (port_ok false): nothing, both catch Exception, log and go on
PortError(port_ok) == None

\* the notification ports answered (port_ok) or failed, up to the return
Notified(port_ok) ==
    /\ adm.pc \in {"notify_duplicate", "notify_rejected", "notify_started"}
    /\ LET err    == PortError(port_ok)
           last   == adm.attempt >= Len(adm.candidates)
           failed == SubmitDecision(None,
                                    <<"submission_failed_all_nodes", err[1]>>,
                                    "failed", AttemptedMetrics(adm.scored))
       IN  IF err = None
           THEN IF adm.pc = "notify_duplicate"
                THEN /\ _history' = _record_decision(_history, now, serial + 1,
                                                     adm.req[1], adm.decision[1])
                     /\ serial' = serial + 1
                     /\ adm' = [adm EXCEPT !.pc = "done",
                                           !.records = Append(@, serial + 1)]
                ELSE /\ adm' = [adm EXCEPT !.pc = "done"]
                     /\ UNCHANGED <<_history, serial>>
           ELSE IF adm.pc # "notify_started"
           THEN \* lines 225-233 and 296-300 stand in no try
                /\ adm' = [adm EXCEPT !.pc = "raised", !.last_error = err]
                /\ UNCHANGED <<_history, serial>>
           ELSE IF ~last
           THEN \* lines 356-367 stand in the try of the loop
                /\ adm' = [adm EXCEPT !.pc = "attempt", !.attempt = @ + 1,
                                      !.decision = None, !.last_error = err]
                /\ UNCHANGED <<_history, serial>>
           ELSE /\ _history' = _record_decision(_history, now, serial + 1,
                                                adm.req[1], failed)
                /\ serial' = serial + 1
                /\ adm' = [adm EXCEPT !.pc = "done", !.last_error = err,
                                      !.decision = Some(failed),
                                      !.records = Append(@, serial + 1)]
    /\ UNCHANGED <<app, config, info, now, ticks, request_tracker, backend, calls>>
    /\ last_call' = Some([op |-> "notify", port_ok |-> port_ok])

NotifyDone == \E port_ok \in BOOLEAN : Notified(port_ok)

\* the caller has the decision (done) or the exception (raised): the frame
\* of the call is gone
Return ==
    /\ adm.pc \in {"done", "raised"}
    /\ adm' = [IdleAdmission EXCEPT !.other = adm.other]
    /\ UNCHANGED <<app, config, info, now, ticks, request_tracker, _history, serial,
                   backend, calls>>
    /\ last_call' = None

\* time passes
Tick ==
    /\ ticks < MaxTicks
    /\ ticks' = ticks + 1
    /\ now' = now + TickHours
    /\ UNCHANGED <<app, config, info, request_tracker, _history, serial, backend,
                   calls, adm>>
    /\ last_call' = None

\* the steps of a call that has started
SubmitSteps ==
    \/ \E suggestion \in BOOLEAN : QualityCheck(suggestion)
    \/ \E outcomes \in [1..Len(config.nodes) -> ProbeOutcomes] : Evaluate(outcomes)
    \/ \E ok \in BOOLEAN : Attempt(ok)
    \/ NotifyDone
    \/ Return

Submit ==
    \/ \E req \in Requests : SubmitStart(req) /\ UNCHANGED app
    \/ SubmitSteps

Next == Submit \/ Tick

Spec == Init /\ [][Next]_vars


(***************************************************************************)
(* Cancellation of a call of submit while it awaits                        *)
(* to_thread.run_sync(node.client.submit_magnet, ...).  The worker thread  *)
(* cannot be interrupted: submit_magnet runs to its end.  The task gets    *)
(* CancelledError either at once (asyncio's Task.cancel: the await is      *)
(* left while the thread goes on) or, when the cancellation comes from a   *)
(* cancel scope, which run_sync shields against until the thread is done,  *)
(* at the next await that suspends; the next to_thread.run_sync begins     *)
(* with a checkpoint, which raises before a thread is started.             *)
(***************************************************************************)
\* a handler that takes CancelledError for a failed attempt
ExceptCatches_all(exc) == TRUE

\* "except Exception" (line 370): CancelledError is a BaseException
ExceptCatches(exc) == exc # "CancelledError"

\* the caller cancels the call while submit_magnet of a candidate runs
Cancel ==
    /\ adm.pc = "attempt"
    /\ adm' = [adm EXCEPT !.pc = "cancelling", !.cancelled = TRUE]
    /\ UNCHANGED <<app, config, info, now, ticks, request_tracker, _history,
                   serial, backend, calls>>
    /\ last_call' = None

\* submit_magnet of the candidate in progress at the cancellation returned
\* (ok) or raised.  shielded: the await was shielded until then; delivered:
\* an await after it suspended, so that CancelledError was raised there.
FinishCancelled(ok, shielded, delivered) ==
    /\ adm.pc = "cancelling"
    /\ LET req      == adm.req[1]
           idx      == adm.candidates[adm.attempt]
           node     == adm.scored[idx].config
           metrics  == AttemptedMetrics(adm.scored)
           accepted == SubmitDecision(Some(node.name), <<"highest_score">>,
                                      "accepted", metrics)
           \* lines 324-353 run: the await returned torrent_hash
           success  == shielded /\ ok
           tracked  == IF success /\ request_tracker # None
                       THEN TrackAccepted(request_tracker[1], req, node.name)
                       ELSE [tracker |-> None, raised |-> FALSE]
           \* what is raised inside the try, if anything
           exc      == IF ~shielded THEN Some("CancelledError")
                       ELSE IF ~ok THEN Some("submit_failed")
                       ELSE IF tracked.raised THEN Some(LogRecordError)
                       ELSE IF delivered THEN Some("CancelledError")
                       ELSE None
           last     == adm.attempt >= Len(adm.candidates)
           failed   == SubmitDecision(None,
                                      <<"submission_failed_all_nodes", exc[1]>>,
                                      "failed", metrics)
           hist1    == IF success
                       THEN _record_decision(_history, now, serial + 1, req,
                                             accepted)
                       ELSE _history
           serial1  == IF success THEN serial + 1 ELSE serial
           recs1    == IF success THEN Append(adm.records, serial + 1)
                       ELSE adm.records
           tried    == [adm EXCEPT !.attempts = Append(@, idx),
                                   !.succeeded = IF ok THEN Append(@, idx) ELSE @,
                                   !.records = recs1]
       IN  /\ backend' = IF ok
                         THEN [backend EXCEPT ![node.name] = @ \cup {req.magnet}]
                         ELSE backend
           /\ request_tracker' = IF success /\ request_tracker # None
                                 THEN Some(tracked.tracker)
                                 ELSE request_tracker
           /\ IF exc = None
              THEN \* no await suspended: line 369 returns the decision
                   /\ _history' = hist1
                   /\ serial' = serial1
                   /\ adm' = [tried EXCEPT !.pc = "done",
                                           !.decision = Some(accepted)]
              ELSE IF ~ExceptCatches(exc[1])
              THEN \* CancelledError leaves submit
                   /\ _history' = hist1
                   /\ serial' = serial1
                   /\ adm' = [tried EXCEPT !.pc = "raised",
                                           !.last_error = exc]
              ELSE IF ~last
              THEN \* the except branch; the checkpoint of the next
                   \* to_thread.run_sync raises CancelledError
                   /\ _history' = hist1
                   /\ serial' = serial1
                   /\ adm' = IF ExceptCatches("CancelledError")
                             THEN [tried EXCEPT !.pc = "attempt",
                                                !.attempt = @ + 1,
                                                !.last_error = exc]
                             ELSE [tried EXCEPT !.pc = "raised",
                                       !.last_error = Some("CancelledError")]
              ELSE \* the except branch of the last candidate: line 381
                   /\ _history' = _record_decision(hist1, now, serial1 + 1,
                                                   req, failed)
                   /\ serial' = serial1 + 1
                   /\ adm' = [tried EXCEPT !.pc = "done",
                                           !.last_error = exc,
                                           !.decision = Some(failed),
                                           !.records = Append(recs1, serial1 + 1)]
    /\ UNCHANGED <<app, config, info, now, ticks, calls>>
    /\ last_call' = None

NextCancel ==
    \/ \E req \in Requests : SubmitStart(req) /\ UNCHANGED app
    \/ SubmitSteps
    \/ Cancel
    \/ \E ok \in BOOLEAN, shielded \in BOOLEAN, delivered \in BOOLEAN :
          FinishCancelled(ok, shielded, delivered)

SpecCancel == Init /\ [][NextCancel]_vars

(***************************************************************************)
(* Properties of one admission.                                            *)
(***************************************************************************)
\* the snapshots of a round that may be attempted
EligibleSet(scored) ==
    {i \in 1..Len(scored) : ~scored[i].excluded /\ scored[i].score # None}

\* snapshot a ranks before snapshot b: a higher score, or the same score and
\* an earlier place in the configuration
RanksBefore(scored, a, b) ==
    \/ scored[a].score[1] > scored[b].score[1]
    \/ scored[a].score[1] = scored[b].score[1] /\ a < b

NamesDistinct(cfg) ==
    \A i, j \in 1..Len(cfg.nodes) : i # j => cfg.nodes[i].name # cfg.nodes[j].name

\* C1: within one call of submit, every attempted snapshot is an eligible
\* snapshot of the call's round, and every eligible snapshot that ranks before
\* it (higher score, or equal score and earlier in the configuration) was
\* attempted earlier: attempts go in non-increasing score order, ties in
\* configuration order, and no lower-ranked node before a higher-ranked one.
C1_AttemptsFollowRanking ==
    \A j \in 1..Len(adm.attempts) :
        /\ adm.attempts[j] \in EligibleSet(adm.scored)
        /\ \A e \in EligibleSet(adm.scored) :
              RanksBefore(adm.scored, e, adm.attempts[j])
                 => \E i \in 1..(j - 1) : adm.attempts[i] = e

\* two attempts on snapshots of equal score, the earlier entry first
C1_TieAttemptedInOrder ==
    /\ Len(adm.attempts) = 2
    /\ adm.scored[adm.attempts[1]].score = adm.scored[adm.attempts[2]].score
    /\ adm.attempts[1] < adm.attempts[2]

Returning == adm.pc = "done"

\* the decision the call in progress returns is the duplicate rejection
DuplicateDecision ==
    adm.decision[1].reason[1] = "duplicate_of_existing_request"

\* C3: a call that returns a decision other than the duplicate rejection
\* returns: rejected, "no_eligible_nodes", nothing attempted, when no snapshot
\* of its round is eligible; failed, no selected node, a reason starting with
\* "submission_failed_all_nodes", when one is eligible and every attempted
\* submit failed; accepted exactly when an attempted submit succeeded, the
\* selected node then being the candidate whose submit succeeded.
C3_TerminalStatus ==
    Returning /\ ~DuplicateDecision =>
        LET d == adm.decision[1]
        IN  /\ EligibleSet(adm.scored) = {} =>
                 /\ d.status = "rejected"
                 /\ d.reason = <<"no_eligible_nodes">>
                 /\ adm.attempts = <<>>
            /\ EligibleSet(adm.scored) # {} /\ adm.succeeded = <<>> =>
                 /\ d.status = "failed"
                 /\ d.selected_node = None
                 /\ d.reason[1] = "submission_failed_all_nodes"
            /\ d.status = "accepted" <=> adm.succeeded # <<>>
            /\ d.status = "accepted" =>
                 /\ Len(adm.succeeded) = 1
                 /\ d.selected_node
                      = Some(adm.scored[adm.succeeded[1]].config.name)

\* C4: a call that began with an entry under its magnet's key younger than
\* 24 hours (the tracker holds only entries stored on line 344, after a
\* node took the magnet and the accepted decision was recorded), with
\* tracking and check_duplicates on, raises nothing, probes no node, submits
\* to no node, and returns rejected with a reason starting with
\* "duplicate_of_existing_request".
C4_DuplicateRejected ==
    adm.dup_seen =>
        /\ adm.pc \in {"notify_duplicate", "done"}
        /\ adm.probes = 0
        /\ adm.attempts = <<>>
        /\ Returning =>
             /\ adm.decision[1].status = "rejected"
             /\ DuplicateDecision

\* C8: a call that returns a decision has appended exactly one record, and
\* the record's status, reason and selected_node are the decision's.
C8_OneRecordPerDecision ==
    Returning =>
        /\ Len(adm.records) = 1
        /\ \E k \in 1..Len(_history) :
              /\ _history[k].serial = adm.records[1]
              /\ _history[k].status = adm.decision[1].status
              /\ _history[k].reason = adm.decision[1].reason
              /\ _history[k].selected_node = adm.decision[1].selected_node

\* C9: every snapshot of a round whose probe failed has reachable false,
\* is excluded, carries no score and no free-disk figure, and gives
\* "api_unreachable" as its reason.
C9_FailedProbeSnapshot ==
    \A i \in 1..Len(adm.scored) :
        adm.outcomes[i] = None =>
            /\ ~adm.scored[i].metrics.reachable
            /\ adm.scored[i].excluded
            /\ adm.scored[i].score = None
            /\ adm.scored[i].metrics.score = None
            /\ adm.scored[i].metrics.free_disk_gb = None
            /\ adm.scored[i].metrics.excluded_reason = Some("api_unreachable")

\* a round in which one probe failed and another answered
C9_OneProbeFailed ==
    /\ Len(adm.scored) = 2
    /\ adm.outcomes[1] = None
    /\ adm.outcomes[2] # None
    /\ adm.scored[2].metrics.reachable

\* C10: every snapshot of a round that carries a score and is not excluded
\* has a score of at least min_score, and so has every snapshot attempted.
C10_ScoreAtLeastMinimum ==
    /\ \A i \in 1..Len(adm.scored) :
          adm.scored[i].score # None /\ ~adm.scored[i].excluded
             => adm.scored[i].score[1] >= config.dispatcher.min_score
    /\ \A j \in 1..Len(adm.attempts) :
          /\ adm.scored[adm.attempts[j]].score # None
          /\ adm.scored[adm.attempts[j]].score[1] >= config.dispatcher.min_score

\* a snapshot attempted at exactly min_score
C10_AttemptedAtMinimum ==
    \E j \in 1..Len(adm.attempts) :
        adm.scored[adm.attempts[j]].score = Some(config.dispatcher.min_score)


\* C11: an evaluation round returns one snapshot per configured node, in
\* configuration order, whatever probes failed: snapshot i is that of entry
\* i of the node list, reachable exactly when the probe of entry i answered.
C11_OneSnapshotPerNode ==
    adm.probes > 0 =>
        /\ Len(adm.scored) = Len(config.nodes)
        /\ Len(adm.outcomes) = Len(config.nodes)
        /\ \A i \in 1..Len(config.nodes) :
              /\ adm.scored[i].config = config.nodes[i]
              /\ adm.scored[i].metrics.name = config.nodes[i].name
              /\ adm.scored[i].metrics.reachable = (adm.outcomes[i] # None)

\* a round over two different nodes in which the probe of the second failed
\* and that of the first answered
C11_SecondProbeFailed ==
    /\ adm.probes > 0
    /\ Len(config.nodes) = 2
    /\ config.nodes[1].name # config.nodes[2].name
    /\ adm.outcomes[1] # None
    /\ adm.outcomes[2] = None
    /\ adm.scored[1].metrics.reachable
    /\ adm.scored[2].config = config.nodes[2]


\* the call in progress is about to return accepted
ReturningAccepted ==
    /\ Returning
    /\ adm.decision # None
    /\ adm.decision[1].status = "accepted"

\* C25: with request tracking enabled, when an admission returns accepted
\* with selected node n, the tracker holds an entry under the key of the
\* request with status "downloading" and selected_node n, and is_duplicate
\* of the same request, called within the duplicate window of the entry,
\* returns that entry.
C25_AcceptedIsTracked ==
    (ReturningAccepted /\ request_tracker # None) =>
        LET req == adm.req[1]
            key == _generate_request_id(req.magnet)
            t   == request_tracker[1]
        IN  /\ key \in DOMAIN t._requests
            /\ t._requests[key].status = "downloading"
            /\ t._requests[key].selected_node = adm.decision[1].selected_node
            /\ t._requests[key].magnet = req.magnet
            /\ now - t._requests[key].timestamp < DuplicateWindowHours =>
                   is_duplicate(t, req, now, info)
                       = [raised |-> FALSE, dup |-> TRUE,
                          existing |-> Some(t._requests[key])]

\* an accepted admission of a dispatcher with a tracker, about to return
\* with no time passed since its entry was made
C25_AcceptedWithTracker ==
    /\ ReturningAccepted
    /\ request_tracker # None
    /\ adm.decision[1].selected_node \in {Some(n) : n \in NodeNames}
    /\ request_tracker[1]._requests[_generate_request_id(adm.req[1].magnet)]
           .timestamp = now

\* the call is suspended at an await of messaging.send_notification or of
\* an n8n_client.notify_* webhook
AwaitingPorts ==
    adm.pc \in {"notify_duplicate", "notify_rejected", "notify_started"}

\* C33: whether the notification ports answer or fail never changes the
\* decision submit returns, the record appended to the history, or the
\* tracker: the step that ends the wait for the ports leaves the decision
\* and the tracker as they were, returns that decision, and appends to the
\* history nothing but the record of the duplicate rejection, which is
\* appended after the notification.
C33_PortOutcomeChangesNothing ==
    [][ (AwaitingPorts /\ adm' # adm) =>
          /\ adm'.pc = "done"
          /\ adm'.decision = adm.decision
          /\ adm'.last_error = adm.last_error
          /\ request_tracker' = request_tracker
          /\ backend' = backend
          /\ _history' = IF adm.pc = "notify_duplicate"
                         THEN _record_decision(_history, now, serial + 1,
                                               adm.req[1], adm.decision[1])
                         ELSE _history ]_vars

\* an accepted admission about to return after its ports failed
C33_AcceptedAfterPortFailure ==
    /\ ReturningAccepted
    /\ last_call = Some([op |-> "notify", port_ok |-> FALSE])
    /\ _history # <<>>
    /\ _history[Len(_history)].status = "accepted"

\* C34: a tracker entry is created only by an accepted admission: the
\* tracker changes in no step of a call of submit other than the one that
\* makes its decision accepted, so a call that ends rejected or failed
\* leaves the tracker as it found it.
C34_TrackedOnlyWhenAccepted ==
    [][ request_tracker' # request_tracker =>
          /\ adm'.decision # None
          /\ adm'.decision[1].status = "accepted" ]_vars

\* C26: within one admission at most one node receives a successful
\* submit: once submit_magnet of a candidate has returned, the call hands
\* the magnet to no further candidate, also when a later step of the success
\* path (recording, tracking, notifying) fails.
C26_AtMostOneSuccessfulSubmit ==
    /\ Len(adm.succeeded) <= 1
    /\ adm.succeeded # <<>> =>
          adm.attempts[Len(adm.attempts)] = adm.succeeded[1]

\* C27: when the caller cancels an admission while submit_magnet of a
\* candidate is in progress, that call of submit_magnet runs to its end (its
\* node may take the magnet) and the dispatcher starts no further candidate:
\* in every step of a cancelled call, the only candidate added to those
\* attempted, and the only node whose backend changes, is the one that was
\* in progress at the cancellation.
C27_NoCandidateAfterCancel ==
    [][ adm.cancelled =>
          LET inProgress == adm.candidates[adm.attempt]
          IN  /\ \/ adm' = IdleAdmission
                 \/ adm'.attempts = adm.attempts
                 \/ /\ adm.pc = "cancelling"
                    /\ adm'.attempts = Append(adm.attempts, inProgress)
              /\ adm'.pc # "attempt"
              /\ \A n \in NodeNames :
                    backend'[n] # backend[n] =>
                        /\ adm.pc = "cancelling"
                        /\ n = adm.scored[inProgress].config.name ]_vars

\* a cancelled call whose submit in progress went through, with a candidate
\* left that was never attempted
C27_CancelledSubmitFinished ==
    /\ adm.cancelled
    /\ adm.pc = "raised"
    /\ adm.last_error = Some("CancelledError")
    /\ adm.succeeded # <<>>
    /\ Len(adm.attempts) < Len(adm.candidates)
    /\ adm.req[1].magnet
           \in backend[adm.scored[adm.succeeded[1]].config.name]

\* C22: notifications are fire-and-forget: a call of submit that has made
\* its decision is never suspended until the notification ports respond.
C22_DecisionNotHeldForPorts == adm.decision # None => ~AwaitingPorts

(***************************************************************************)
(* Dispatcher.get_decisions, called while the dispatcher runs.             *)
(***************************************************************************)
\* default of get_decisions(limit)
DefaultLimit == 50

Limits == {-1, 0, DefaultLimit, HistoryMaxLen, HistoryMaxLen + 1}

GetDecisions(limit) ==
    /\ last_call' = Some([op |-> "get_decisions", arg |-> limit,
                          raised |-> FALSE,
                          value |-> get_decisions(_history, limit)])
    /\ UNCHANGED <<app, config, info, now, ticks, request_tracker, _history, serial,
                   backend, calls, adm>>

\* a history of n decisions, as n rejections for want of eligible nodes
\* leave it
Rejections(cfg, n) ==
    [k \in 1..n |->
        _record_decision(<<>>, 0, k, ReqN,
            SubmitDecision(None, <<"no_eligible_nodes">>, "rejected",
                           [i \in 1..Len(cfg.nodes) |-> cfg.nodes[i].name]))[1]]

\* a dispatcher whose history is one record short of full
InitRing ==
    /\ config = CfgOne
    /\ info \in BOOLEAN
    /\ now = 0
    /\ ticks = 0
    /\ request_tracker = NewDispatcherTracker(config)
    /\ _history = Rejections(config, HistoryMaxLen - 1)
    /\ serial = Len(_history)
    /\ backend = [n \in NodeNames |-> {}]
    /\ calls = 0
    /\ adm = IdleAdmission
    /\ last_call = None
    /\ app = NewApp(config, None)

NextRing ==
    \/ SubmitStart(ReqN) /\ UNCHANGED app
    \/ SubmitSteps
    \/ \E limit \in Limits : GetDecisions(limit)

SpecRing == InitRing /\ [][NextRing]_vars

(***************************************************************************)
(* Properties of the decision history.                                     *)
(***************************************************************************)
\* records appended by a step
Appended == serial' - serial

\* records a step's appends push out of the history
Dropped == Max(0, Len(_history) + Appended - HistoryMaxLen)

\* a step that appends leaves the history as it was less its oldest
\* records, in their order, followed by the new records
AppendKeepsOrder ==
    Appended > 0 \/ _history' # _history =>
        /\ Len(_history') = Len(_history) + Appended - Dropped
        /\ SubSeq(_history', 1, Len(_history) - Dropped)
             = SubSeq(_history, Dropped + 1, Len(_history))
        /\ \A k \in 1..Appended :
              _history'[Len(_history') - Appended + k].serial = serial + k

\* C6: the history holds at most 200 records in every reachable state; an
\* append to a full history drops the oldest record and leaves the others
\* in their order.
C6_HistoryBounded ==
    /\ [](Len(_history) <= HistoryMaxLen)
    /\ [][AppendKeepsOrder]_vars

\* a full history that has lost its oldest record
C6_OldestDropped ==
    /\ Len(_history) = HistoryMaxLen
    /\ _history[1].serial > 1

\* the last step called get_decisions
CalledGetDecisions ==
    last_call # None /\ last_call[1].op = "get_decisions"

\* what get_decisions returned is the min(limit, length) newest records,
\* oldest first, or nothing for a limit of 0 or less
NewestReturned ==
    CalledGetDecisions =>
        LET limit == last_call[1].arg
            value == last_call[1].value
            n     == IF limit > 0 THEN Min(limit, Len(_history)) ELSE 0
        IN  /\ Len(value) = n
            /\ \A k \in 1..n : value[k] = _history[Len(_history) - n + k]
            /\ n > 0 => value[n].serial = serial
            /\ \A k \in 1..(n - 1) : value[k].serial < value[k + 1].serial

\* C7: get_decisions(limit) returns, for limit > 0, the min(limit, history
\* length) most recently appended records, oldest first, and for limit <= 0
\* the empty list; the call leaves the history as it was.
C7_GetDecisions ==
    /\ []NewestReturned
    /\ [][CalledGetDecisions' => _history' = _history]_vars

\* get_decisions(50) on a full history that has overflowed
C7_DefaultLimitOnFullHistory ==
    /\ CalledGetDecisions
    /\ last_call[1].arg = DefaultLimit
    /\ Len(last_call[1].value) = DefaultLimit
    /\ Len(_history) = HistoryMaxLen
    /\ _history[1].serial > 1

(***************************************************************************)
(* The tracker called directly (RequestTracker's own interface).           *)
(***************************************************************************)
\* ids the tracker's category lists hold at most, in the tracker alone
MaxTracked == 2

TrackerKeys == {_generate_request_id(r.magnet) : r \in TrackerRequests}

\* ids held by the category lists
RECURSIVE ListedIds(_, _)
ListedIds(byc, cats) ==
    IF cats = {} THEN 0
    ELSE LET c == CHOOSE x \in cats : TRUE
         IN  Len(byc[c]) + ListedIds(byc, cats \ {c})

TrackerAdd(req) ==
    /\ ListedIds(request_tracker[1]._by_category,
                 DOMAIN request_tracker[1]._by_category) < MaxTracked
    /\ LET r == add_request(request_tracker[1], req, None, None, now, info)
       IN  /\ request_tracker' = Some(r.tracker)
           /\ last_call' = Some([op |-> "add_request", arg |-> req,
                                 raised |-> r.raised,
                                 value |-> IF r.raised THEN None ELSE Some(r.value)])
    /\ UNCHANGED <<app, config, info, now, ticks, _history, serial, backend, calls, adm>>


TrackerIsDuplicate(req) ==
    /\ LET r == is_duplicate(request_tracker[1], req, now, info)
       IN  last_call' = Some([op |-> "is_duplicate", arg |-> req,
                              raised |-> r.raised,
                              value |-> <<r.dup, r.existing>>])
    /\ UNCHANGED <<app, config, info, now, ticks, request_tracker, _history, serial,
                   backend, calls, adm>>

TrackerUpdateStatus(request_id, status, selected_node) ==
    /\ request_tracker' =
         Some(update_status(request_tracker[1], request_id, status, selected_node))
    /\ last_call' = Some([op |-> "update_status", arg |-> request_id,
                          raised |-> FALSE, value |-> None])
    /\ UNCHANGED <<app, config, info, now, ticks, _history, serial, backend, calls, adm>>

TrackerCleanup(days) ==
    /\ LET r == cleanup_old_requests(request_tracker[1], days, now)
       IN  /\ request_tracker' = Some(r.tracker)
           /\ last_call' = Some([op |-> "cleanup_old_requests", arg |-> days,
                                 raised |-> FALSE, value |-> r.value])
    /\ UNCHANGED <<app, config, info, now, ticks, _history, serial, backend, calls, adm>>

\* a tracker of its own, as RequestTracker() builds it
InitTracker ==
    /\ config = CfgTwo
    /\ info \in BOOLEAN
    /\ now = 0
    /\ ticks = 0
    /\ request_tracker = Some(NewTracker)
    /\ _history = <<>>
    /\ serial = 0
    /\ backend = [n \in NodeNames |-> {}]
    /\ calls = 0
    /\ adm = IdleAdmission
    /\ last_call = None
    /\ app = NewApp(config, None)

NextTracker ==
    \/ \E req \in TrackerRequests : TrackerAdd(req)
    \/ \E req \in TrackerRequests : TrackerIsDuplicate(req)
    \/ \E k \in TrackerKeys, node \in {None, Some("node-a")} :
         TrackerUpdateStatus(k, "downloading", node)
    \/ \E days \in {0, 1} : TrackerCleanup(days)
    \/ Tick

SpecTracker == InitTracker /\ [][NextTracker]_vars

(***************************************************************************)
(* Properties of the tracker.                                              *)
(***************************************************************************)
\* the tracker holds an entry under the key of req inserted less than 24
\* hours ago
HoldsRecent(req) ==
    LET key == _generate_request_id(req.magnet)
    IN  /\ key \in DOMAIN request_tracker[1]._requests
        /\ now - request_tracker[1]._requests[key].timestamp < DuplicateWindowHours

\* C5: after any sequence of add_request, update_status and
\* cleanup_old_requests, is_duplicate(req) returns (true, existing) when the
\* tracker holds an entry under req's key inserted less than 24 hours ago,
\* existing being that entry, and (false, none) otherwise.
C5_IsDuplicateIffRecent ==
    last_call # None /\ last_call[1].op = "is_duplicate" =>
        LET req == last_call[1].arg
            key == _generate_request_id(req.magnet)
        IN  /\ ~last_call[1].raised
            /\ last_call[1].value =
                 IF HoldsRecent(req)
                 THEN <<TRUE, Some(request_tracker[1]._requests[key])>>
                 ELSE <<FALSE, None>>


\* the last step was a call of cleanup_old_requests
CleanedUp == last_call # None /\ last_call[1].op = "cleanup_old_requests"

\* C24: cleanup_old_requests(days) removes exactly the entries whose
\* timestamp is older than the cutoff (now - days), returns the number of
\* entries removed, and leaves every other entry unchanged under its key.
C24_CleanupRemovesExactlyOld ==
    [][ CleanedUp' =>
          LET before == request_tracker[1]._requests
              after  == request_tracker'[1]._requests
              cutoff == now - last_call'[1].arg * HoursPerDay
              old    == {k \in DOMAIN before : before[k].timestamp < cutoff}
          IN  /\ DOMAIN after = (DOMAIN before) \ old
              /\ \A k \in DOMAIN after : after[k] = before[k]
              /\ last_call'[1].value = Cardinality(old)
              /\ ~last_call'[1].raised ]_vars

\* a cleanup that removed one entry and kept a younger one
C24_OneRemovedOneKept ==
    /\ CleanedUp
    /\ last_call[1].value = 1
    /\ Cardinality(DOMAIN request_tracker[1]._requests) = 1

(***************************************************************************)
(* Dispatcher.evaluate_nodes called on its own: the round of GET /nodes    *)
(* and POST /debug/decision (size estimate 0) and that of submit (the size *)
(* estimate of the request), over telemetry in which several exclusion     *)
(* tests apply at once.                                                    *)
(***************************************************************************)
RoundStates ==
    { NodeState(Some(30), 0, 1, 0),    \* plenty of room
      NodeState(Some(30), 3, 0, 0),    \* more downloads than max_downloads
      NodeState(None, 3, 0, 0),        \* free disk unknown, too many downloads
      NodeState(Some(5), 3, 0, 0),     \* little room, too many downloads
      NodeState(Some(15), 0, 0, 0),    \* room for a small request only
      NodeState(Some(1), 0, 0, 3) }    \* idle disk, saturated link

RoundOutcomes == {None} \cup {Some(s) : s \in RoundStates}

\* SubmitRequest.size_estimate_gb (ge=0)
SizeEstimates == {0, 10}

\* One round.  outcomes[i] is what fetch_state of entry i did; late is the
\* set of entries whose fetch_state took longer than the per-node deadline
\* of the specification.  _gather_node_state awaits
\* to_thread.run_sync(client.fetch_state) with no timeout and gather waits
\* for every task, so what the round returns does not depend on late.
EvaluateNodes(size_estimate_gb, outcomes, late) ==
    /\ last_call' = Some([op |-> "evaluate_nodes",
                          size_estimate_gb |-> size_estimate_gb,
                          outcomes |-> outcomes,
                          late |-> late,
                          result |-> evaluate_nodes(config, outcomes,
                                                    size_estimate_gb)])
    /\ UNCHANGED <<app, config, info, now, ticks, request_tracker, _history, serial,
                   backend, calls, adm>>

\* POST /debug/decision: Dispatcher.debug_decision(req) from the await of
\* its round to the return
DebugDecision(req, outcomes) ==
    /\ LET d == debug_decision(config, req, outcomes)
       IN  /\ last_call' = Some([op |-> "debug_decision", arg |-> req,
                                 outcomes |-> outcomes, result |-> d])
           /\ _history' = DryRunHistory(_history, now, serial + 1, req, d)
    /\ UNCHANGED <<app, config, info, now, ticks, request_tracker, serial,
                   backend, calls, adm>>

\* GET /nodes: Dispatcher.get_node_statuses() from the await of its round to
\* the return
GetNodeStatuses(outcomes) ==
    /\ last_call' = Some([op |-> "get_node_statuses", outcomes |-> outcomes,
                          result |-> get_node_statuses(config, outcomes)])
    /\ UNCHANGED <<app, config, info, now, ticks, request_tracker, _history,
                   serial, backend, calls, adm>>

InitRound == InitWith(Configs, <<>>)

NextRound ==
    \/ \E size_estimate_gb \in SizeEstimates,
       outcomes \in [1..Len(config.nodes) -> RoundOutcomes],
       late \in SUBSET (1..Len(config.nodes)) :
        EvaluateNodes(size_estimate_gb, outcomes, late)
    \/ \E req \in Requests,
          outcomes \in [1..Len(config.nodes) -> RoundOutcomes] :
          DebugDecision(req, outcomes)

SpecRound == InitRound /\ [][NextRound]_vars

(***************************************************************************)
(* Properties of one evaluation round.                                     *)
(***************************************************************************)
RoundDone == last_call # None /\ last_call[1].op = "evaluate_nodes"

\* C12: a probe that does not answer within the per-node deadline gives an
\* unreachable snapshot: in every round, the snapshot of every entry whose
\* probe was late has reachable false and the reason "api_unreachable".
C12_LateProbeUnreachable ==
    RoundDone =>
        \A i \in last_call[1].late :
            /\ ~last_call[1].result[i].metrics.reachable
            /\ last_call[1].result[i].metrics.excluded_reason
                   = Some("api_unreachable")


\* the codes of NodeMetrics.excluded_reason
ReasonCodes ==
    {"api_unreachable", "missing_free_space", "below_min_free_space",
     "too_many_downloads", "score_below_minimum"}

\* free - sizeEstimate, not below zero, for a positive size estimate
FreeAfter(free, size_estimate_gb) ==
    IF size_estimate_gb > 0 THEN Max(0, free - size_estimate_gb) ELSE free

\* entry i of the last round answered with free disk unknown / with known
\* free disk below the minimum of its node / with too many downloads
FreeUnknown(i) == last_call[1].outcomes[i][1].free_disk_gb = None

FreeLow(i) ==
    /\ ~FreeUnknown(i)
    /\ FreeAfter(last_call[1].outcomes[i][1].free_disk_gb[1],
                 last_call[1].size_estimate_gb) < config.nodes[i].min_free_gb

TooMany(i) ==
    last_call[1].outcomes[i][1].active_downloads
        > config.dispatcher.max_downloads

ReasonOf(i) == last_call[1].result[i].metrics.excluded_reason

\* C19: the exclusion reason is first-set-wins in the order disk, downloads,
\* score.  In every round: unknown free disk gives "missing_free_space" and
\* effective free disk below the minimum gives "below_min_free_space",
\* whatever the downloads; "too_many_downloads" is given exactly when the
\* disk tests pass and the downloads exceed max_downloads;
\* "score_below_minimum" exactly when neither test excluded the node and its
\* score is below min_score; the reason is one of the five codes or absent,
\* and absent exactly when the node is not excluded.
C19_FirstReasonWins ==
    RoundDone =>
        \A i \in 1..Len(last_call[1].result) :
            /\ ReasonOf(i) \in {None} \cup {Some(c) : c \in ReasonCodes}
            /\ (ReasonOf(i) = None) <=> ~last_call[1].result[i].excluded
            /\ last_call[1].outcomes[i] # None =>
                 /\ FreeUnknown(i) => ReasonOf(i) = Some("missing_free_space")
                 /\ FreeLow(i) => ReasonOf(i) = Some("below_min_free_space")
                 /\ (ReasonOf(i) = Some("too_many_downloads"))
                       <=> (~FreeUnknown(i) /\ ~FreeLow(i) /\ TooMany(i))
                 /\ (ReasonOf(i) = Some("score_below_minimum"))
                       <=> /\ ~FreeUnknown(i) /\ ~FreeLow(i) /\ ~TooMany(i)
                           /\ last_call[1].result[i].score # None
                           /\ last_call[1].result[i].score[1]
                                  < config.dispatcher.min_score

\* a round with one node whose free disk is unknown and one whose free disk
\* is below its minimum, both with too many downloads, both excluded for
\* their disk
C19_DiskBeforeDownloads ==
    /\ RoundDone
    /\ \E i, j \in 1..Len(last_call[1].result) :
          /\ last_call[1].outcomes[i] # None
          /\ last_call[1].outcomes[j] # None
          /\ FreeUnknown(i) /\ TooMany(i)
          /\ FreeLow(j) /\ TooMany(j)
          /\ ReasonOf(i) = Some("missing_free_space")
          /\ ReasonOf(j) = Some("below_min_free_space")

\* the score of entry i of the last round with effective free disk free
DiskTermScore(i, free) ==
    ( free * config.dispatcher.disk_weight
      - last_call[1].outcomes[i][1].active_downloads
            * config.dispatcher.download_weight
      - last_call[1].outcomes[i][1].global_download_rate_mbps
            * config.dispatcher.bandwidth_weight )
    * (IF config.nodes[i].weight = 0 THEN 1 ELSE config.nodes[i].weight)

\* C20: with free disk known, the scorer uses max(0, free - sizeEstimate)
\* for a positive size estimate and free itself for size estimate 0: the
\* node is excluded with "below_min_free_space" exactly when that figure is
\* below the node's min_free_gb, and every score computed has it as its
\* disk term.
C20_EffectiveFree ==
    RoundDone =>
        \A i \in 1..Len(last_call[1].result) :
            (last_call[1].outcomes[i] # None /\ ~FreeUnknown(i)) =>
                LET free == FreeAfter(
                                last_call[1].outcomes[i][1].free_disk_gb[1],
                                last_call[1].size_estimate_gb)
                IN  /\ (ReasonOf(i) = Some("below_min_free_space"))
                          <=> free < config.nodes[i].min_free_gb
                    /\ last_call[1].result[i].score # None =>
                          last_call[1].result[i].score[1]
                              = DiskTermScore(i, free)
                    /\ (free >= config.nodes[i].min_free_gb /\ ~TooMany(i))
                          => last_call[1].result[i].score # None

\* a round for a request of positive size in which one node with enough
\* free disk for its minimum is excluded for the size estimate, and another
\* is scored with a disk term of zero for less free disk than the estimate
C20_SizeEstimateExcludes ==
    /\ RoundDone
    /\ last_call[1].size_estimate_gb > 0
    /\ \E i, j \in 1..Len(last_call[1].result) :
          /\ last_call[1].outcomes[i] # None /\ ~FreeUnknown(i)
          /\ last_call[1].outcomes[i][1].free_disk_gb[1]
                 >= config.nodes[i].min_free_gb
          /\ ReasonOf(i) = Some("below_min_free_space")
          /\ last_call[1].outcomes[j] # None /\ ~FreeUnknown(j)
          /\ last_call[1].outcomes[j][1].free_disk_gb[1]
                 < last_call[1].size_estimate_gb
          /\ last_call[1].result[j].score
                 = Some(DiskTermScore(j, 0))



\* the last step was a call of debug_decision
DebugDone == last_call # None /\ last_call[1].op = "debug_decision"

\* C29: the dry run agrees with the admission: for the request, the
\* configuration and the telemetry of the call, debug_decision selects the
\* node submit would attempt first, reports for every node the exclusion,
\* reason and score the round of submit gives it, and says
\* "no_eligible_nodes" exactly when submit would.
C29_DryRunAgreesWithSubmit ==
    DebugDone =>
        LET req        == last_call[1].arg
            d          == last_call[1].result
            \* lines 277-280 of submit on the same telemetry
            scored     == evaluate_nodes(config, last_call[1].outcomes,
                                         req.size_estimate_gb)
            candidates == Candidates(config, scored)
        IN  /\ d.selected_node
                   = IF candidates = <<>> THEN None
                     ELSE Some(scored[candidates[1]].config.name)
            /\ Len(d.nodes) = Len(scored)
            /\ \A i \in 1..Len(scored) :
                  /\ d.nodes[i].excluded = scored[i].excluded
                  /\ d.nodes[i].metrics = scored[i].metrics
            /\ (d.reason = "no_eligible_nodes") <=> (Eligible(scored) = <<>>)

\* C21: for every non-excluded node the score is
\* (effectiveFree*disk_weight - activeDownloads*download_weight
\*  - bandwidth*bandwidth_weight) multiplied by the weight configured for
\* the node, a weight of zero included.
C21_ScoreTimesConfiguredWeight ==
    RoundDone =>
        \A i \in 1..Len(last_call[1].result) :
            ~last_call[1].result[i].excluded =>
                last_call[1].result[i].score
                    = Some(( FreeAfter(
                                 last_call[1].outcomes[i][1].free_disk_gb[1],
                                 last_call[1].size_estimate_gb)
                                 * config.dispatcher.disk_weight
                             - last_call[1].outcomes[i][1].active_downloads
                                   * config.dispatcher.download_weight
                             - last_call[1].outcomes[i][1].global_download_rate_mbps
                                   * config.dispatcher.bandwidth_weight )
                           * config.nodes[i].weight)

(***************************************************************************)
(* The HTTP application (app/main.py, create_app) around the dispatcher:   *)
(* the admin gate, the two submission endpoints, the two reload endpoints  *)
(* and GET /integrations/status.                                           *)
(***************************************************************************)
\* reloads installed in one run
MaxReloads == 1

\* --- configuration documents ----------------------------------------------
\* a node entry of the document
RawNode(node) ==
    [name |-> node.name, url |-> "http://qb:8080", username |-> "admin",
     password |-> "secret", min_free_gb |-> node.min_free_gb,
     weight |-> node.weight]

\* a node entry without its "name"
RawNodeNoName ==
    [url |-> "http://qb:8080", username |-> "admin", password |-> "secret"]

\* the dict yaml.safe_load gives for a document
RawConfig(nodes, max_retries, enabled, n8n, overseerr) ==
    [dispatcher |->
        [disk_weight |-> 1, download_weight |-> 2, bandwidth_weight |-> 1,
         max_downloads |-> 2, min_score |-> -1,
         submission |-> [max_retries |-> max_retries]],
     nodes |-> nodes,
     integrations |->
        [n8n |-> [enabled |-> n8n], overseerr |-> [enabled |-> overseerr]],
     request_tracking |->
        [enabled |-> enabled, check_duplicates |-> TRUE,
         check_quality_profiles |-> FALSE, send_suggestions |-> FALSE]]

\* the same with dispatcher.admin_api_key: key
WithAdminKey(raw, key) ==
    [raw EXCEPT !.dispatcher = DictSet(@, "admin_api_key", key)]

AdminKey == "k1"

\* one node, admin key set, n8n on
RawKeyed ==
    WithAdminKey(RawConfig(<<RawNode(NodeB)>>, 2, TRUE, TRUE, FALSE), AdminKey)
\* another node, no admin key, Overseerr on, no tracker, no retry setting
RawOpen == RawConfig(<<RawNode(NodeA)>>, 1, FALSE, FALSE, TRUE)
\* "nodes: []"
RawNoNodes == RawConfig(<<>>, 2, TRUE, FALSE, FALSE)
\* a node without its name
RawNodeMissingField == RawConfig(<<RawNodeNoName>>, 2, TRUE, FALSE, FALSE)

\* two node entries under one name
RawSameName ==
    RawConfig(<<RawNode(NodeA), RawNode(NodeA2)>>, 2, TRUE, FALSE, FALSE)

\* a text: a YAML document, the empty text, or text that is not YAML
YamlText(raw) == [kind |-> "yaml", doc |-> raw]
EmptyText == [kind |-> "empty"]
NotYaml == [kind |-> "not yaml"]

\* yaml.safe_load(text) or {}
safe_load(text) ==
    IF text.kind = "not yaml" THEN [raised |-> TRUE, value |-> <<>>]
    ELSE IF text.kind = "empty" THEN [raised |-> FALSE, value |-> <<>>]
    ELSE [raised |-> FALSE, value |-> text.doc]

\* yaml.safe_dump(raw, sort_keys=False)
safe_dump(raw) == YamlText(raw)

NodeRequired == {"name", "url", "username", "password"}

\* config.parse_config: the AppConfig, or the exception it raises.  The
\* documents of the model state the three weights (the default of
\* bandwidth_weight, 0.1, is no integer).
parse_config(raw) ==
    LET dispatcher_raw == DictGet(raw, "dispatcher", <<>>)
        submission_raw == DictGet(dispatcher_raw, "submission", <<>>)
        nodes_raw      == DictGet(raw, "nodes", <<>>)
        integrations   == DictGet(raw, "integrations", <<>>)
        tracking_raw   == DictGet(raw, "request_tracking", <<>>)
        Enabled(name)  ==
            DictGet(DictGet(integrations, name, <<>>), "enabled", FALSE)
    IN  IF \E k \in 1..Len(nodes_raw) : ~(NodeRequired \subseteq DOMAIN nodes_raw[k])
        THEN [raised |-> Some("KeyError"), config |-> None]
        ELSE IF nodes_raw = <<>>
        THEN [raised |-> Some("ValueError: No nodes configured in config"),
              config |-> None]
        ELSE [raised |-> None,
              config |-> Some(
                [nodes |->
                    [k \in 1..Len(nodes_raw) |->
                        NodeConfig(nodes_raw[k].name,
                                   DictGet(nodes_raw[k], "min_free_gb", 0),
                                   DictGet(nodes_raw[k], "weight", 1))],
                 dispatcher |->
                    [disk_weight |-> dispatcher_raw.disk_weight,
                     download_weight |-> dispatcher_raw.download_weight,
                     bandwidth_weight |-> dispatcher_raw.bandwidth_weight,
                     max_downloads |-> DictGet(dispatcher_raw, "max_downloads", 50),
                     min_score |-> DictGet(dispatcher_raw, "min_score", -1),
                     admin_api_key |->
                        IF "admin_api_key" \in DOMAIN dispatcher_raw
                        THEN Some(dispatcher_raw.admin_api_key) ELSE None,
                     submission |->
                        [max_retries |-> DictGet(submission_raw, "max_retries", 2)]],
                 integrations |->
                    [n8n |-> [enabled |-> Enabled("n8n")],
                     overseerr |-> [enabled |-> Enabled("overseerr")]],
                 request_tracking |->
                    [enabled |-> DictGet(tracking_raw, "enabled", TRUE),
                     check_duplicates |->
                        DictGet(tracking_raw, "check_duplicates", TRUE),
                     check_quality_profiles |->
                        DictGet(tracking_raw, "check_quality_profiles", TRUE),
                     send_suggestions |->
                        DictGet(tracking_raw, "send_suggestions", TRUE)]])]

\* AppConfigModel.model_dump(): DispatcherConfig has no admin_api_key field
model_dump(raw) ==
    [raw EXCEPT !.dispatcher = DictDel(@, {"admin_api_key"})]

CfgKeyed == parse_config(RawKeyed).config[1]
CfgOpen  == parse_config(RawOpen).config[1]


\* --- the admin gate ---------------------------------------------------------
\* the routes registered with Depends(require_admin)
AdminGated ==
    {"POST /submit", "GET /config/raw", "POST /config/raw", "GET /config/json",
     "POST /config/json", "GET /nodes", "POST /debug/decision", "GET /arr",
     "GET /integrations/status", "GET /integrations/overseerr/requests",
     "GET /integrations/jellyseerr/requests",
     "GET /integrations/prowlarr/indexers", "GET /request-tracking/all",
     "GET /request-tracking/category/{category}", "GET /quality-profiles",
     "GET /decisions", "GET /config"}

\* the routes registered without it
Ungated ==
    {"GET /", "POST /api/v2/auth/login", "POST /api/v2/torrents/add",
     "GET /api/v2/app/version", "GET /api/v2/app/webapiVersion",
     "GET /health", "GET /metrics"}

\* "if not key: return" does not happen
KeyConfigured(cfg) ==
    /\ cfg.dispatcher.admin_api_key # None
    /\ cfg.dispatcher.admin_api_key[1] # ""

\* require_admin returns (header: the X-API-Key header, None when absent)
require_admin(cfg, header) ==
    ~KeyConfigured(cfg) \/ header = cfg.dispatcher.admin_api_key

\* the dependencies of route let the request through to its handler
PassesGate(route, header) ==
    route \in AdminGated => require_admin(app.config_obj, header)

Headers == {None, Some(AdminKey)}

\* a response: its status, whether the body of the handler ran, what the
\* gate saw, the dispatchers (by number) and configurations the request was
\* served from, and the decision of dispatcher.submit if there is one
Response(route, status, ran, header, generations, decision) ==
    [op |-> "http", route |-> route, status |-> status, ran |-> ran,
     key_configured |-> KeyConfigured(app.config_obj),
     key_matched |-> (header = app.config_obj.dispatcher.admin_api_key),
     generations |-> generations, decision |-> decision]

\* the response with what the request carried
OfRequest(response, request) ==
    [k \in DOMAIN response \cup {"request"} |->
        IF k = "request" THEN request ELSE response[k]]

Unauthorized(route, header) ==
    Response(route, 401, FALSE, header, {app.generation}, None)

\* --- handlers that read only ------------------------------------------------
ReadRoutes ==
    {"GET /", "GET /health", "GET /metrics", "GET /decisions"}

Serve(route, header) ==
    /\ last_call' = Some(IF PassesGate(route, header)
                         THEN Response(route, 200, TRUE, header,
                                       {app.generation}, None)
                         ELSE Unauthorized(route, header))
    /\ UNCHANGED <<app, config, info, now, ticks, request_tracker, _history,
                   serial, backend, calls, adm>>

\* --- paths the router does not know -----------------------------------------
\* the decorators of create_app that are executed.  Those of
\* test_node_connection and test_arr_connection stand inside the body of
\* list_decisions after its return statement and are never executed.
Registered == AdminGated \cup Ungated

\* the routes of the two decorators that are never executed
ConnectivityTests == {"POST /config/test/node", "POST /config/test/arr"}

\* a request for which the router matches no route: 404, no dependency and
\* no handler runs
NotFound(route, header) ==
    /\ route \notin Registered
    /\ last_call' = Some(Response(route, 404, FALSE, header,
                                  {app.generation}, None))
    /\ UNCHANGED <<app, config, info, now, ticks, request_tracker, _history,
                   serial, backend, calls, adm>>

\* --- strings of the urls form field -----------------------------------------
Whitespace == {" ", "\n"}

RECURSIVE lstrip(_)
lstrip(str) ==
    IF str # <<>> /\ str[1] \in Whitespace THEN lstrip(Tail(str)) ELSE str

RECURSIVE rstrip(_)
rstrip(str) ==
    IF str # <<>> /\ str[Len(str)] \in Whitespace
    THEN rstrip(SubSeq(str, 1, Len(str) - 1)) ELSE str

\* str.strip()
strip(str) == rstrip(lstrip(str))

\* tokens that begin with "magnet:"
MagnetPrefixed == {MagnetHead}

\* str.startswith("magnet:")
startswith_magnet(str) == str # <<>> /\ str[1] \in MagnetPrefixed

\* urls.strip().splitlines()[0].strip(): None for the IndexError of an
\* empty list of lines
first_line(urls) ==
    IF strip(urls) = <<>> THEN None
    ELSE Some(strip(SplitHead(strip(urls), "\n")))

HttpUrl == "http://tracker/x.torrent"

UrlsInputs ==
    { <<>>,                                       \* field missing or empty
      <<" ">>,                                    \* blank
      <<HttpUrl>>,                                \* no magnet
      <<" ">> \o MagnetB \o <<"\n", HttpUrl>> }   \* a magnet on the first line


\* --- the submission endpoints -----------------------------------------------
\* the frame of a submission handler at "await dispatcher.submit(req)": the
\* dispatcher it called, by number and by the configuration it was built
\* from, and what the gate saw
Call(route, header) ==
    [route |-> route, generation |-> app.generation,
     config |-> app.config_obj,
     key_configured |-> KeyConfigured(app.config_obj),
     key_matched |-> (header = app.config_obj.dispatcher.admin_api_key)]

\* a handler that answers 503 to a failed decision only
submit_status_failed_only(decision) ==
    IF decision.status = "failed" THEN 503 ELSE 200

\* POST /submit, lines 95-100
submit_status(decision) ==
    IF decision.status = "rejected" THEN 503
    ELSE IF decision.status = "failed" THEN 503
    ELSE 200

\* POST /api/v2/torrents/add, lines 779-782
qb_torrents_add_status(decision) ==
    IF decision.status # "accepted" THEN 503 ELSE 200

\* POST /submit up to the await of dispatcher.submit
HttpSubmit(header, req) ==
    \/ /\ ~PassesGate("POST /submit", header)
       /\ last_call' = Some(Unauthorized("POST /submit", header))
       /\ UNCHANGED <<app, config, info, now, ticks, request_tracker,
                      _history, serial, backend, calls, adm>>
    \/ /\ PassesGate("POST /submit", header)
       /\ SubmitStart(req)
       /\ app' = [app EXCEPT !.call = Some(Call("POST /submit", header))]

\* the request qb_torrents_add builds from the first line of urls
QbRequest(magnet, category) ==
    SubmitRequest(magnet, IF category = "" THEN "default" ELSE category,
                  0, magnet)

\* POST /api/v2/torrents/add up to the await of dispatcher.submit, or up to
\* the exception that ends it: HTTPException(400), or the IndexError of
\* splitlines()[0] on text that is blank, which the server answers with 500
QbTorrentsAdd(urls, category) ==
    LET route == "POST /api/v2/torrents/add"
        line  == first_line(urls)
        early == IF urls = <<>> THEN 400
                 ELSE IF line = None THEN 500
                 ELSE IF ~startswith_magnet(line[1]) THEN 400
                 ELSE 0
    IN  \/ /\ early # 0
           /\ last_call' = Some(OfRequest(Response(route, early, TRUE, None,
                                                   {app.generation}, None),
                                          [urls |-> urls]))
           /\ UNCHANGED <<app, config, info, now, ticks, request_tracker,
                          _history, serial, backend, calls, adm>>
        \/ /\ early = 0
           /\ SubmitStart(QbRequest(line[1], category))
           /\ app' = [app EXCEPT !.call = Some(Call(route, None))]

\* dispatcher.submit returned or raised: the rest of the handler.  An
\* exception that is no HTTPException is answered with 500.  The dispatcher
\* the call ran on is dropped with its frame if a reload replaced it.
HttpReturn ==
    /\ adm.pc \in {"done", "raised"}
    /\ app.call # None
    /\ LET call   == app.call[1]
           status == IF adm.pc = "raised" THEN 500
                     ELSE IF call.route = "POST /submit"
                     THEN submit_status(adm.decision[1])
                     ELSE qb_torrents_add_status(adm.decision[1])
       IN  /\ app' = [app EXCEPT
                         !.call = None,
                         !.self_generation = app.generation,
                         !.accepted =
                            IF adm.pc = "done"
                               /\ adm.decision[1].status = "accepted"
                            THEN @ \cup {adm.req[1].magnet} ELSE @]
           /\ last_call' =
                 Some([op |-> "http", route |-> call.route,
                       status |-> status, ran |-> TRUE,
                       key_configured |-> call.key_configured,
                       key_matched |-> call.key_matched,
                       generations |-> {call.generation},
                       decision |-> IF adm.pc = "raised" THEN None
                                    ELSE adm.decision])
    /\ adm' = IdleAdmission
    /\ IF app.self_generation = app.generation
       THEN UNCHANGED <<config, request_tracker, _history>>
       ELSE /\ config' = app.config_obj
            /\ request_tracker' = NewDispatcherTracker(app.config_obj)
            /\ _history' = <<>>
    /\ UNCHANGED <<info, now, ticks, serial, backend, calls>>


\* --- hot reload ---------------------------------------------------------------
\* a reload that rebinds the call in flight to the new dispatcher
KeepsSelf_never(pc) == FALSE

\* a call of submit in flight runs on the instance it was called on ("self"),
\* whatever the closure's "dispatcher" is rebound to
KeepsSelf(pc) == pc # "idle"

\* what DEFAULT_CONFIG_PATH.write_text did: wrote the text, raised leaving
\* the file as it was, or raised after truncating it
WriteOutcomes == {"written", "refused", "torn"}

FileAfter(file, text, write) ==
    IF write = "written" THEN Some(text)
    ELSE IF write = "torn" THEN Some(EmptyText)
    ELSE file

\* "config_obj = new_config; dispatcher = Dispatcher(config_obj)" and the
\* response; the variables of the dispatcher follow the new instance unless
\* a call is running on the old one
Install(new_config, text, write, route, header, generations) ==
    /\ app.reloads < MaxReloads
    /\ app' = [app EXCEPT
                 !.config_obj = new_config,
                 !.file = Some(text),
                 !.generation = @ + 1,
                 !.reloads = @ + 1,
                 !.self_generation =
                    IF KeepsSelf(adm.pc) THEN @ ELSE app.generation + 1]
    /\ last_call' = Some(OfRequest(Response(route, 200, TRUE, header,
                                            generations, None),
                                   [text |-> text, write |-> write]))
    /\ IF KeepsSelf(adm.pc)
       THEN UNCHANGED <<config, request_tracker, _history>>
       ELSE /\ config' = new_config
            /\ request_tracker' = NewDispatcherTracker(new_config)
            /\ _history' = <<>>

\* a handler that writes the file before it parses the candidate
FileOnRefusal_written_first(file, status, text, write) ==
    IF status \in {400, 500} THEN FileAfter(file, text, write) ELSE file

\* the file when the handler ends with HTTPException(status): write_text
\* is reached only by a candidate that parsed
FileOnRefusal(file, status, text, write) ==
    IF status = 500 THEN FileAfter(file, text, write) ELSE file

\* the handler ended with an HTTPException; write: what write_text did, or
\* would do if it were reached
Refuse(route, status, header, text, write) ==
    /\ app' = [app EXCEPT !.file = FileOnRefusal(@, status, text, write)]
    /\ last_call' = Some(OfRequest(Response(route, status,
                                            status \notin {401, 422},
                                            header, {app.generation}, None),
                                   [text |-> text, write |-> write]))
    /\ UNCHANGED <<config, request_tracker, _history>>

\* POST /config/raw
UpdateConfigRaw(header, text, write) ==
    LET route  == "POST /config/raw"
        loaded == safe_load(text)
        parsed == parse_config(loaded.value)
    IN  /\ IF ~PassesGate(route, header)
           THEN Refuse(route, 401, header, text, write)
           ELSE IF loaded.raised \/ parsed.raised # None
           THEN Refuse(route, 400, header, text, write)
           ELSE IF write # "written"
           THEN Refuse(route, 500, header, text, write)
           ELSE Install(parsed.config[1], text, write, route, header,
                        {app.generation})
        /\ UNCHANGED <<info, now, ticks, serial, backend, calls, adm>>


\* GET /config/json: the body get_config_json builds from the active
\* configuration.  DispatcherConfig is given the three weights, max_downloads,
\* min_score and submission; NodeConfigModel is given name, url, username,
\* password and min_free_gb, so that its weight is the default of the model,
\* 1.0.
get_config_json(cfg) ==
    [dispatcher |->
        [disk_weight |-> cfg.dispatcher.disk_weight,
         download_weight |-> cfg.dispatcher.download_weight,
         bandwidth_weight |-> cfg.dispatcher.bandwidth_weight,
         max_downloads |-> cfg.dispatcher.max_downloads,
         min_score |-> cfg.dispatcher.min_score,
         submission |-> [max_retries |-> cfg.dispatcher.submission.max_retries]],
     nodes |->
        [k \in 1..Len(cfg.nodes) |->
            [RawNode(cfg.nodes[k]) EXCEPT !.weight = 1]],
     integrations |->
        [n8n |-> [enabled |-> cfg.integrations.n8n.enabled],
         overseerr |-> [enabled |-> cfg.integrations.overseerr.enabled]],
     request_tracking |->
        [enabled |-> cfg.request_tracking.enabled,
         check_duplicates |-> cfg.request_tracking.check_duplicates,
         check_quality_profiles |-> cfg.request_tracking.check_quality_profiles,
         send_suggestions |-> cfg.request_tracking.send_suggestions]]

\* AppConfigModel accepts the body (every node has its required fields)
Validates(payload) ==
    \A k \in 1..Len(payload.nodes) : NodeRequired \subseteq DOMAIN payload.nodes[k]

\* POST /config/json.  A body the model rejects is answered with 422 before
\* the handler; the response of a reload is get_config_json() of the
\* configuration just installed.
UpdateConfigJson(header, payload, write) ==
    LET route  == "POST /config/json"
        raw    == model_dump(payload)
        parsed == parse_config(raw)
    IN  /\ IF ~PassesGate(route, header)
           THEN Refuse(route, 401, header, safe_dump(raw), write)
           ELSE IF ~Validates(payload)
           THEN Refuse(route, 422, header, safe_dump(raw), write)
           ELSE IF parsed.raised # None
           THEN Refuse(route, 400, header, safe_dump(raw), write)
           ELSE IF write # "written"
           THEN Refuse(route, 500, header, safe_dump(raw), write)
           ELSE Install(parsed.config[1], safe_dump(raw), write, route,
                        header, {app.generation, app.generation + 1})
        /\ UNCHANGED <<info, now, ticks, serial, backend, calls, adm>>

\* --- GET /integrations/status -------------------------------------------------
\* up to "await dispatcher.n8n_client.check_connection()" (n8n on), else up
\* to the return.  The status dict takes the "enabled" flags from config_obj
\* (lines 836-853); line 868 reads config_obj again to decide whether
\* Overseerr is checked.
IntegrationsStatusStart(header) ==
    LET route == "GET /integrations/status"
        cfg   == app.config_obj
        body  == [n8n_enabled |-> cfg.integrations.n8n.enabled,
                  overseerr_enabled |-> cfg.integrations.overseerr.enabled,
                  overseerr_checked |-> cfg.integrations.overseerr.enabled]
    IN  /\ app.status = None
        /\ IF ~PassesGate(route, header)
           THEN /\ last_call' = Some(Unauthorized(route, header))
                /\ UNCHANGED app
           ELSE IF cfg.integrations.n8n.enabled
           THEN /\ app' = [app EXCEPT !.status =
                             Some([body |-> body,
                                   generation |-> app.generation,
                                   key_configured |-> KeyConfigured(cfg),
                                   key_matched |->
                                      (header = cfg.dispatcher.admin_api_key)])]
                /\ last_call' = None
           ELSE /\ last_call' = Some(Response(route, 200, TRUE, header,
                                              {app.generation}, Some(body)))
                /\ UNCHANGED app
        /\ UNCHANGED <<config, info, now, ticks, request_tracker, _history,
                       serial, backend, calls, adm>>

\* check_connection answered: from line 864 to the return
IntegrationsStatusResume ==
    LET route == "GET /integrations/status"
        frame == app.status[1]
    IN  /\ app.status # None
        /\ app' = [app EXCEPT !.status = None]
        /\ last_call' =
              Some([op |-> "http", route |-> route, status |-> 200,
                    ran |-> TRUE,
                    key_configured |-> frame.key_configured,
                    key_matched |-> frame.key_matched,
                    generations |-> {frame.generation, app.generation},
                    decision |->
                       Some([frame.body EXCEPT
                               !.overseerr_checked =
                                  app.config_obj.integrations
                                     .overseerr.enabled])])
        /\ UNCHANGED <<config, info, now, ticks, request_tracker, _history,
                       serial, backend, calls, adm>>

\* --- the application ------------------------------------------------------------
TextInputs ==
    {YamlText(RawOpen), YamlText(RawNoNodes), YamlText(RawNodeMissingField),
     YamlText(RawSameName), NotYaml}

JsonInputs == {RawKeyed, RawNoNodes}

InitApp ==
    /\ config = CfgKeyed
    /\ info \in BOOLEAN
    /\ now = 0
    /\ ticks = 0
    /\ request_tracker = NewDispatcherTracker(config)
    /\ _history = <<>>
    /\ serial = 0
    /\ backend = [n \in NodeNames |-> {}]
    /\ calls = 0
    /\ adm = IdleAdmission
    /\ last_call = None
    /\ app = NewApp(config, Some(YamlText(RawKeyed)))

\* a probe that failed, a probe that found plenty of room
AppOutcomes == {None, Some(NodeState(Some(30), 0, 1, 0))}

NextApp ==
    \/ \E header \in Headers : HttpSubmit(header, ReqA)
    \/ \E urls \in UrlsInputs : QbTorrentsAdd(urls, "")
    \/ \E outcomes \in [1..Len(config.nodes) -> AppOutcomes] : Evaluate(outcomes)
    \/ \E ok \in BOOLEAN : Attempt(ok)
    \/ NotifyDone
    \/ HttpReturn
    \/ \E header \in Headers, text \in {YamlText(RawOpen), YamlText(RawNoNodes)} :
          UpdateConfigRaw(header, text, "written")

SpecApp == InitApp /\ [][NextApp]_vars

\* the requests that do not go through dispatcher.submit
NextGate ==
    \/ \E route \in ReadRoutes, header \in Headers : Serve(route, header)
    \/ \E route \in ConnectivityTests, header \in Headers :
          NotFound(route, header)
    \/ \E header \in Headers : IntegrationsStatusStart(header)
    \/ IntegrationsStatusResume
    \/ \E header \in Headers, text \in TextInputs, write \in WriteOutcomes :
          UpdateConfigRaw(header, text, write)
    \/ \E header \in Headers, write \in WriteOutcomes,
          payload \in JsonInputs \cup {get_config_json(app.config_obj)} :
          UpdateConfigJson(header, payload, write)

SpecGate == InitApp /\ [][NextGate]_vars

(***************************************************************************)
(* GET /nodes and POST /debug/decision served while admissions go on.      *)
(***************************************************************************)
InitDryRun == InitWith({CfgTwo}, <<>>)

NextDryRun ==
    \/ SubmitStart(ReqA) /\ UNCHANGED app
    \/ \E outcomes \in [1..Len(config.nodes) -> AppOutcomes] : Evaluate(outcomes)
    \/ \E ok \in BOOLEAN : Attempt(ok)
    \/ NotifyDone
    \/ Return
    \/ \E req \in Requests, outcomes \in [1..Len(config.nodes) -> AppOutcomes] :
          DebugDecision(req, outcomes)
    \/ \E outcomes \in [1..Len(config.nodes) -> AppOutcomes] :
          GetNodeStatuses(outcomes)

SpecDryRun == InitDryRun /\ [][NextDryRun]_vars

(***************************************************************************)
(* Two calls of submit on one dispatcher.  Every action of submit runs     *)
(* from one await to the next, so the event loop may leave the call at any *)
(* state of the model and go on with the other one.                        *)
(***************************************************************************)
\* the event loop resumes the other call (a new one when there is none)
Switch ==
    /\ adm.pc # "idle"
    /\ LET current == [adm EXCEPT !.other = None]
           resumed == IF adm.other = None THEN IdleAdmission ELSE adm.other[1]
       IN  adm' = [resumed EXCEPT !.other = Some(current)]
    /\ UNCHANGED <<app, config, info, now, ticks, request_tracker, _history,
                   serial, backend, calls>>
    /\ last_call' = None

\* the call whose frame is adm has returned and the other one is suspended:
\* the event loop resumes it
Resume ==
    /\ adm.pc = "idle"
    /\ adm.other # None
    /\ adm' = adm.other[1]
    /\ UNCHANGED <<app, config, info, now, ticks, request_tracker, _history,
                   serial, backend, calls>>
    /\ last_call' = None

NextConcurrent ==
    \/ SubmitStart(ReqA) /\ UNCHANGED app
    \/ \E outcomes \in [1..Len(config.nodes) -> AppOutcomes] : Evaluate(outcomes)
    \/ \E ok \in BOOLEAN : Attempt(ok)
    \/ NotifyDone
    \/ Return
    \/ Switch
    \/ Resume

SpecConcurrent == InitDryRun /\ [][NextConcurrent]_vars

(***************************************************************************)
(* A dispatcher that runs for more than the retention time of its tracker. *)
(* The event loop resumes every coroutine that can go on, so a step of an  *)
(* admission that has started is taken in the end, and the clock goes on;  *)
(* nobody is bound to submit.                                              *)
(***************************************************************************)
\* cleanup_old_requests(self, days: int = 7)
CleanupDays == 7

\* the retention time and one duplicate window more pass.  The clock is
\* followed for MaxTicks such steps: an entry that is older than the
\* retention time stays so whatever time passes afterwards, and an idle
\* dispatcher takes no step but the passing of time.
Age ==
    /\ ticks < MaxTicks
    /\ ticks' = ticks + 1
    /\ now' = now + CleanupDays * HoursPerDay + TickHours
    /\ UNCHANGED <<app, config, info, request_tracker, _history, serial, backend,
                   calls, adm>>
    /\ last_call' = None

NextAging ==
    \/ \E req \in Requests : SubmitStart(req) /\ UNCHANGED app
    \/ \E outcomes \in [1..Len(config.nodes) -> AppOutcomes] : Evaluate(outcomes)
    \/ \E ok \in BOOLEAN : Attempt(ok)
    \/ NotifyDone
    \/ Return
    \/ Age

SpecAging ==
    /\ InitDryRun
    /\ [][NextAging]_vars
    /\ WF_vars(\E outcomes \in [1..Len(config.nodes) -> AppOutcomes] :
                  Evaluate(outcomes))
    /\ WF_vars(\E ok \in BOOLEAN : Attempt(ok))
    /\ WF_vars(NotifyDone)
    /\ WF_vars(Return)
    /\ WF_vars(Age)


(***************************************************************************)
(* Properties of the application.                                          *)
(***************************************************************************)
\* C13: every admission uses one configuration generation for all of its
\* steps, the one active when it started, whatever reloads complete while
\* it is in flight, and an admission that starts after a reload uses the
\* new one.  The configuration the steps of submit read (config) is, while
\* a call is in flight, that of the dispatcher the handler called, which
\* was the active one then; with no call in flight it is the active one,
\* which the next call will read.
C13_OneGenerationPerAdmission ==
    /\ adm.pc = "idle" =>
          /\ config = app.config_obj
          /\ app.self_generation = app.generation
    /\ adm.pc # "idle" =>
          /\ app.call # None
          /\ config = app.call[1].config
          /\ app.self_generation = app.call[1].generation
          /\ app.call[1].generation <= app.generation

\* an admission that has probed and is attempting a node of the old
\* configuration after a reload installed another node list
C13_ReloadedInFlight ==
    /\ adm.pc = "attempt"
    /\ app.call # None
    /\ app.generation > app.call[1].generation
    /\ app.config_obj.nodes # config.nodes
    /\ \A k \in 1..Len(adm.scored) : adm.scored[k].config = config.nodes[k]


\* the last step sent an HTTP response
Responded == last_call # None /\ last_call[1].op = "http"

ReloadRoutes == {"POST /config/raw", "POST /config/json"}

\* C14: hot reload is atomic for every reader: every response to a request
\* other than a reload itself was served from one generation of the
\* configuration and dispatcher.
C14_OneGenerationPerRequest ==
    (Responded /\ last_call[1].route \notin ReloadRoutes) =>
        Cardinality(last_call[1].generations) = 1

\* the candidate of a reload does not parse or does not validate: it is no
\* YAML document, or it has no node, or a node without a required field
CandidateInvalid(text) ==
    \/ text.kind # "yaml"
    \/ text.doc.nodes = <<>>
    \/ \E k \in 1..Len(text.doc.nodes) :
          ~({"name", "url", "username", "password"}
                \subseteq DOMAIN text.doc.nodes[k])

\* the last step answered a reload that got past the gate
ReloadAnswered ==
    /\ last_call' # None
    /\ last_call'[1].op = "http"
    /\ last_call'[1].route \in ReloadRoutes
    /\ last_call'[1].status # 401

\* the active configuration and dispatcher are what they were
MemoryUnchanged ==
    /\ app'.config_obj = app.config_obj
    /\ app'.generation = app.generation
    /\ app'.self_generation = app.self_generation
    /\ UNCHANGED <<config, request_tracker, _history>>

\* C15: a reload whose candidate fails parsing or validation is answered
\* with a 4xx and changes neither the file nor the active configuration and
\* dispatcher; a reload whose candidate is valid and whose write fails is
\* answered with a 5xx and leaves the active configuration and dispatcher
\* unchanged.
C15_FailedReloadChangesNothing ==
    [][ReloadAnswered =>
          /\ CandidateInvalid(last_call'[1].request.text) =>
                /\ last_call'[1].status \in 400..499
                /\ app'.file = app.file
                /\ MemoryUnchanged
          /\ (/\ ~CandidateInvalid(last_call'[1].request.text)
              /\ last_call'[1].request.write # "written") =>
                /\ last_call'[1].status \in 500..599
                /\ MemoryUnchanged]_vars

\* a reload with an empty node list was refused with 400 although the write
\* would have gone through
C15_EmptyNodeListRefused ==
    /\ Responded
    /\ last_call[1].route = "POST /config/raw"
    /\ last_call[1].status = 400
    /\ last_call[1].request.text = YamlText(RawNoNodes)
    /\ last_call[1].request.write = "written"
    /\ app.file = Some(YamlText(RawKeyed))
    /\ app.config_obj = CfgKeyed

Compatibility ==
    {"POST /api/v2/auth/login", "POST /api/v2/torrents/add",
     "GET /api/v2/app/version", "GET /api/v2/app/webapiVersion"}

\* C31: every configuration that is installed, at start-up or by a reload,
\* has pairwise distinct node names.
C31_InstalledNamesDistinct == NamesDistinct(app.config_obj)

\* C23: the application registers POST /config/test/node and
\* POST /config/test/arr: a request to either that passes the admin gate
\* is routed to its connectivity-test handler (it is not answered 404) and
\* the handler runs.
C23_ConnectivityTestsServed ==
    (/\ Responded
     /\ last_call[1].route \in ConnectivityTests
     /\ (last_call[1].key_configured => last_call[1].key_matched)) =>
        /\ last_call[1].status # 404
        /\ last_call[1].ran

\* C16: with an admin key configured, every endpoint other than the
\* compatibility endpoints and the health endpoint answers 401 to a request
\* without the matching X-API-Key header and does not run its handler.
C16_GateOnEveryOtherRoute ==
    (/\ Responded
     /\ last_call[1].key_configured
     /\ ~last_call[1].key_matched
     /\ last_call[1].route \notin Compatibility \cup {"GET /health"}) =>
        /\ last_call[1].status = 401
        /\ ~last_call[1].ran

SubmissionRoutes == {"POST /submit", "POST /api/v2/torrents/add"}

\* C17: a submission endpoint answers 200 exactly when dispatcher.submit
\* returned a decision with status "accepted"; a rejected or failed
\* decision is answered with 503 carrying the decision, which is the
\* decision the dispatcher recorded last.
C17_SuccessIffAccepted ==
    (Responded /\ last_call[1].route \in SubmissionRoutes) =>
        /\ (last_call[1].status = 200)
              <=> /\ last_call[1].decision # None
                  /\ last_call[1].decision[1].status = "accepted"
        /\ last_call[1].decision # None =>
              /\ last_call[1].decision[1].status
                     \in {"accepted", "rejected", "failed"}
              /\ last_call[1].decision[1].status # "accepted"
                     => last_call[1].status = 503
              /\ _history # <<>> =>
                     /\ _history[Len(_history)].status
                            = last_call[1].decision[1].status
                     /\ _history[Len(_history)].reason
                            = last_call[1].decision[1].reason

\* a duplicate answered with 503 and its rejection
C17_DuplicateAnswered503 ==
    /\ Responded
    /\ last_call[1].route = "POST /submit"
    /\ last_call[1].status = 503
    /\ last_call[1].decision # None
    /\ last_call[1].decision[1].status = "rejected"
    /\ last_call[1].decision[1].reason[1] = "duplicate_of_existing_request"

\* urls has no magnet on its first line: it is empty or blank, or what is
\* left of its first line does not start with "magnet:"
NoMagnetFirst(urls) ==
    strip(urls) = <<>> \/ ~startswith_magnet(strip(urls))

\* C18: POST /api/v2/torrents/add with urls missing, empty or not starting
\* with a magnet is answered with 400 without invoking the dispatcher: no
\* call of submit, no probe, nothing submitted, history and tracker
\* unchanged.
C18_NoMagnetAnswered400 ==
    [][(/\ last_call' # None
        /\ last_call'[1].op = "http"
        /\ last_call'[1].route = "POST /api/v2/torrents/add"
        /\ "request" \in DOMAIN last_call'[1]
        /\ NoMagnetFirst(last_call'[1].request.urls)) =>
          /\ last_call'[1].status = 400
          /\ UNCHANGED <<calls, adm, backend, _history, request_tracker>>]_vars

(***************************************************************************)
(* Properties of the read-only views.                                      *)
(***************************************************************************)
\* the last step was a call of debug_decision or of get_node_statuses
ViewDone ==
    /\ last_call # None
    /\ last_call[1].op \in {"debug_decision", "get_node_statuses"}

\* C30: debug_decision and get_node_statuses are read-only with respect to
\* routing state: a call of either hands no magnet to any node and leaves
\* the decision history and the tracker as they were.
C30_ViewsReadOnly ==
    [][ ViewDone' =>
          /\ backend' = backend
          /\ _history' = _history
          /\ serial' = serial
          /\ request_tracker' = request_tracker
          /\ adm' = adm ]_vars

\* a dry run that selected a node, made while the history holds a record,
\* the tracker an entry and a node a magnet
C30_DryRunAfterAdmission ==
    /\ last_call # None
    /\ last_call[1].op = "debug_decision"
    /\ last_call[1].result.selected_node # None
    /\ _history # <<>>
    /\ request_tracker # None
    /\ DOMAIN request_tracker[1]._requests # {}
    /\ \E n \in NodeNames : backend[n] # {}

(***************************************************************************)
(* Admissions and GET /decisions around a hot reload that installs a       *)
(* configuration with request tracking enabled.                            *)
(***************************************************************************)
\* the history of the dispatcher the closure holds.  While an admission
\* still runs on a dispatcher that a reload replaced, the variables are the
\* fields of the old one and the new one has recorded nothing.
ClosureHistory ==
    IF app.self_generation = app.generation THEN _history ELSE <<>>

\* GET /decisions?limit=..., list_decisions
ListDecisions(header, limit) ==
    /\ last_call' =
          Some(IF PassesGate("GET /decisions", header)
               THEN OfRequest(Response("GET /decisions", 200, TRUE, header,
                                       {app.generation}, None),
                              [limit |-> limit,
                               value |-> get_decisions(ClosureHistory, limit)])
               ELSE Unauthorized("GET /decisions", header))
    /\ UNCHANGED <<app, config, info, now, ticks, request_tracker, _history,
                   serial, backend, calls, adm>>

NextReload ==
    \/ \E header \in Headers : HttpSubmit(header, ReqA)
    \/ \E outcomes \in [1..Len(config.nodes) -> AppOutcomes] : Evaluate(outcomes)
    \/ \E ok \in BOOLEAN : Attempt(ok)
    \/ NotifyDone
    \/ HttpReturn
    \/ \E header \in Headers : UpdateConfigRaw(header, YamlText(RawKeyed), "written")
    \/ \E header \in Headers : ListDecisions(header, DefaultLimit)

SpecReload == InitApp /\ [][NextReload]_vars

(***************************************************************************)
(* Properties of a long-running dispatcher.                                *)
(***************************************************************************)
\* the tracker of the dispatcher holds an entry under key k
Tracked(k) == request_tracker # None /\ k \in DOMAIN request_tracker[1]._requests

\* that entry is older than the retention time
Expired(k) ==
    /\ Tracked(k)
    /\ now - request_tracker[1]._requests[k].timestamp
           > CleanupDays * HoursPerDay

\* C32: in a running dispatcher every tracked entry older than 7 days is
\* eventually removed from the tracker.
C32_ExpiredEventuallyRemoved ==
    \A k \in TrackerKeys : [](Expired(k) => <>(~Tracked(k)))

(***************************************************************************)
(* Properties of concurrent admissions.                                    *)
(***************************************************************************)
\* the call with frame f has decided accepted
FrameAccepted(f) == f.decision # None /\ f.decision[1].status = "accepted"

\* C35: with tracking and check_duplicates enabled, of concurrent
\* admissions of one magnet at most one is accepted, and the magnet is
\* submitted successfully to at most one backend (no clock advance: all
\* within one duplicate window).
C35_OneAcceptedUnderConcurrency ==
    (/\ request_tracker # None
     /\ config.request_tracking.check_duplicates) =>
        /\ adm.other # None =>
              ~(FrameAccepted(adm) /\ FrameAccepted(adm.other[1]))
        /\ Cardinality({n \in NodeNames : ReqA.magnet \in backend[n]}) <= 1


(***************************************************************************)
(* Properties of the dispatcher's memory across a hot reload.              *)
(***************************************************************************)
\* the call in progress ends, or is about to end, as the rejection of a
\* duplicate
RejectedAsDuplicate ==
    /\ adm.decision # None
    /\ adm.decision[1].status = "rejected"
    /\ adm.decision[1].reason # <<>>
    /\ adm.decision[1].reason[1] = "duplicate_of_existing_request"

\* C36: duplicate suppression survives hot reload: an admission of a magnet
\* that an earlier admission was answered as accepted for (before the
\* reload, or in flight during it), made on a dispatcher whose
\* configuration enables tracking and check_duplicates, within the
\* duplicate window (the clock does not advance here), is rejected as a
\* duplicate.
C36_DuplicateAfterReload ==
    ( /\ adm.pc # "idle"
      /\ adm.req[1].magnet \in app.accepted
      /\ config.request_tracking.enabled
      /\ config.request_tracking.check_duplicates
      /\ now < DuplicateWindowHours )
    => RejectedAsDuplicate

\* C37: decision history survives hot reload: after a reload GET /decisions
\* returns every record appended so far, those of the admissions that were
\* in flight during the reload included, up to the bound of the history and
\* the limit asked for.
C37_HistoryAfterReload ==
    ( /\ last_call # None
      /\ last_call[1].op = "http"
      /\ last_call[1].route = "GET /decisions"
      /\ last_call[1].status = 200
      /\ "request" \in DOMAIN last_call[1]
      /\ app.reloads > 0
      /\ adm.pc = "idle" )
    => LET value == last_call[1].request.value
           limit == last_call[1].request.limit
       IN  \A n \in 1..serial :
              n > serial - limit /\ n > serial - HistoryMaxLen
              => \E i \in 1..Len(value) : value[i].serial = n


(***************************************************************************)
(* Properties of the tracker's category index.                             *)
(***************************************************************************)
TrackerCategories == {r.category : r \in TrackerRequests}

\* C38: after any sequence of add_request and cleanup_old_requests (a known
\* key re-added with the same or with another category included),
\* get_requests_by_category(c) returns every tracked request whose category
\* is c exactly once, and no request whose category is not c.
C38_CategoryIndexConsistent ==
    \A c \in TrackerCategories :
       LET t    == request_tracker[1]
           view == get_requests_by_category(t, c)
       IN  /\ \A i \in 1..Len(view) : view[i].category = c
           /\ \A k \in DOMAIN t._requests :
                 t._requests[k].category = c
                 => Cardinality({i \in 1..Len(view) : view[i] = t._requests[k]}) = 1


(***************************************************************************)
(* Properties of the structured configuration endpoints.                   *)
(***************************************************************************)
\* the step is a reload through POST /config/json whose body is the one
\* GET /config/json returns for the configuration active before the step
PostsBackJson ==
    /\ last_call' # None
    /\ last_call'[1].op = "http"
    /\ last_call'[1].route = "POST /config/json"
    /\ last_call'[1].status = 200
    /\ last_call'[1].request.text
          = safe_dump(model_dump(get_config_json(app.config_obj)))

\* C39: the structured config endpoints round-trip: posting to
\* POST /config/json the body just returned by GET /config/json installs a
\* configuration equal to the one that was active before, with the same
\* per-node weights and the same scoring policy.
C39_ConfigJsonRoundTrip ==
    [][ PostsBackJson => app'.config_obj = app.config_obj ]_vars


\* the step is a reload through POST /config/json
ReloadsThroughJson ==
    /\ last_call' # None
    /\ last_call'[1].op = "http"
    /\ last_call'[1].route = "POST /config/json"
    /\ last_call'[1].status = 200

\* C40: a hot reload through POST /config/json never removes the admin
\* gate: if an admin key is configured before the reload, then after it
\* require_admin lets a request through only when a key is configured and
\* the X-API-Key header of the request matches it.
C40_JsonReloadKeepsGate ==
    [][ (KeyConfigured(app.config_obj) /\ ReloadsThroughJson)
        => \A header \in Headers :
              require_admin(app'.config_obj, header)
              => /\ KeyConfigured(app'.config_obj)
                 /\ header = app'.config_obj.dispatcher.admin_api_key ]_vars

====
